---- MODULE Spec2Model ----
(***************************************************************************)
(* Model of hypocrite: the location-aware line list (linelist.py), the    *)
(* percent-directive parser (perfile.py), the directive handlers of the   *)
(* hypocrite input grammar (hypofile.py), the rendering of templates      *)
(* (template.py) and of a hypocrite input file (hypofile.py).             *)
(*                                                                         *)
(* Text is a sequence of one-character strings.  Positions follow the     *)
(* source: they are 0-based, Find returns -1 when nothing is found and    *)
(* Slice(s, a, b) is s[a:b].  An optional text (a Python str or None) is  *)
(* a record [has, v]; the coordinate None is NoCoord.                     *)
(***************************************************************************)
EXTENDS Integers, Sequences, FiniteSets, TLC

VARIABLES
    entries,      \* LineList._entries of the list being built and written
    out,          \* what LineList.output wrote: file name and output lines
    pc,           \* position of parse: "reading", "returned" or "raised"
    eof,          \* the stream has delivered a line without trailing newline
    deferred,     \* PerFileParser._deferred
    buf,          \* PerFileParser._buf
    comment_pfx,  \* PerFileParser._comment_pfx
    continued,    \* PerFileParser._continued
    start_coord,  \* PerFileParser._start_coord
    lines,        \* PerFileParser._lines
    values,       \* the value-map of the running parse
    raised,       \* the exception that left parse, with its message kind
    fed,          \* the input lines read so far, with what each one did
    calls,        \* the handler and continuation calls made so far
    tk_text,      \* the characters _tokenize has looped over
    tk_st,        \* the loop state of _tokenize: state, buf, tokens yielded
    tk_pc,        \* position of _tokenize: "scanning", "done" or "raised"
    tk_out,       \* list(_tokenize(text, coord)) once it is done
    sc_pc,        \* position of Section.render: "idle", "loop", "returned"
                  \* or "raised"
    sc_kw,        \* the kwargs of the call of Section.render
    sc_req,       \* Section.requires
    sc_body,      \* the entries of Section.contents the loop has taken
    sc_res,       \* the result of Section.render as far as it is built
    rc_ctxt,      \* the RenderContext the calls of Template.render share
    rc_calls,     \* the calls of Template.render made on it
    rc_pc,        \* "ready", or "raised" once a call has raised
    hfile,        \* the HypoFile
    hf_pc,        \* "parsed", then "rendered" or "raised"
    hf_res,       \* what HypoFile.render did
    hf_decls,     \* the declarations the file was made from, in order
    tc_cache,     \* Template._tmpl_cache: the Template object under each name
    tc_calls,     \* the calls of Template.get_tmpl made so far
    tc_next,      \* the identity of the next Template object constructed
    ll_heap,      \* the LineList objects made so far: the entries of each
    ll_ops,       \* the operations done on them, in order
    ap_fn,        \* the function applied: "none", "sub", "make_type", "mock"
    ap_arg,       \* its arguments
    ap_res,       \* what it returned or raised
    sd_heap,      \* the collections made by the factories: items by identity
    sd_parses     \* the parses started: class, value-map, and once parse
                  \* has returned what the caller then saw in the value-map

vars == <<entries, out, pc, eof, deferred, buf, comment_pfx, continued,
          start_coord, lines, values, raised, fed, calls, tk_text, tk_st,
          tk_pc, tk_out, sc_pc, sc_kw, sc_req, sc_body, sc_res, rc_ctxt,
          rc_calls, rc_pc, hfile, hf_pc, hf_res, hf_decls, tc_cache, tc_calls,
          tc_next, ll_heap, ll_ops,
          ap_fn, ap_arg, ap_res, sd_heap, sd_parses>>

listVars == <<entries, out>>

parseVars == <<pc, eof, deferred, buf, comment_pfx, continued, start_coord,
               lines, values, raised, fed, calls>>

tokVars == <<tk_text, tk_st, tk_pc, tk_out>>

sectionVars == <<sc_pc, sc_kw, sc_req, sc_body, sc_res>>

templateVars == <<rc_ctxt, rc_calls, rc_pc>>

hypoVars == <<hfile, hf_pc, hf_res, hf_decls>>

renderVars == <<sectionVars, templateVars, hypoVars>>

cacheVars == <<tc_cache, tc_calls, tc_next>>

heapVars == <<ll_heap, ll_ops>>

applyVars == <<ap_fn, ap_arg, ap_res>>

seedVars == <<sd_heap, sd_parses>>

auxVars == <<cacheVars, heapVars, applyVars, seedVars>>

\* what the steps of a parse, of a line list, of the tokenizer and of the
\* renderings leave alone
notParse == <<listVars, tokVars, renderVars, auxVars>>

notList == <<parseVars, tokVars, renderVars, auxVars>>

notTok == <<listVars, parseVars, renderVars, auxVars>>

notSection == <<listVars, parseVars, tokVars, templateVars, hypoVars, auxVars>>

notTemplate == <<listVars, parseVars, tokVars, sectionVars, hypoVars, auxVars>>

notHypo == <<listVars, parseVars, tokVars, sectionVars, templateVars, auxVars>>

notCache == <<listVars, parseVars, tokVars, renderVars, heapVars, applyVars, seedVars>>

notHeap == <<listVars, parseVars, tokVars, renderVars, cacheVars, applyVars, seedVars>>

notApply == <<listVars, parseVars, tokVars, renderVars, cacheVars, heapVars, seedVars>>

notSeed == <<listVars, parseVars, tokVars, renderVars, cacheVars, heapVars, applyVars>>

-----------------------------------------------------------------------------
(* Bounds *)

MaxEntries == 3

MaxLno == 2

MaxLines == 4

\* the longest text given to the tokenizer on its own
MaxText == 5

\* the longest body of a section rendered on its own
MaxBody == 2

\* the most calls of Template.render on one context, and the most contexts
MaxCalls == 3

MaxContexts == 2

\* the most declarations of a hypocrite input file
MaxDecls == 3

\* the most calls of Template.get_tmpl
MaxGets == 3

\* the most operations on LineList objects
MaxOps == 3

\* the most tokens given to _make_type on its own, and the most parameters
\* of a mock
MaxType == 4

MaxParams == 2

\* the most parses by one process, and the most values its parses store
\* between them
MaxParses == 2

MaxStores == 2

\* the most tokens after the name of a directive
MaxToks == 3

\* characters after the directive word on a line handed to _parse_line
MaxQuoted == 6

-----------------------------------------------------------------------------
(* Text *)

Min(S) == CHOOSE m \in S : \A n \in S : m <= n

Slice(s, a, b) ==
    LET lo == IF a < 0 THEN 0 ELSE a
        hi == IF b > Len(s) THEN Len(s) ELSE b
    IN  IF hi <= lo THEN <<>> ELSE SubSeq(s, lo + 1, hi)

Find(s, pat, start) ==
    LET cands == {i \in start..(Len(s) - Len(pat)) :
                    SubSeq(s, i + 1, i + Len(pat)) = pat}
    IN  IF cands = {} THEN -1 ELSE Min(cands)

IsSpace(c) == c \in {" ", "\t", "\n"}

Letters == {"a", "b", "c", "d", "e", "f", "g", "h", "i", "j", "k", "l", "m",
            "n", "o", "p", "q", "r", "s", "t", "u", "v", "w", "x", "y", "z"}

Digits == {"0", "1", "2", "3", "4", "5", "6", "7", "8", "9"}

IsAlpha(c) == c \in Letters

IsAlnum(c) == c \in Letters \cup Digits

RECURSIVE LStrip(_)
LStrip(s) ==
    IF s # <<>> /\ IsSpace(Head(s)) THEN LStrip(Tail(s)) ELSE s

RECURSIVE RStrip(_)
RStrip(s) ==
    IF s # <<>> /\ IsSpace(s[Len(s)]) THEN RStrip(SubSeq(s, 1, Len(s) - 1))
    ELSE s

Strip(s) == RStrip(LStrip(s))

StartsWith(s, pat) ==
    Len(s) >= Len(pat) /\ SubSeq(s, 1, Len(pat)) = pat

EndsWith(s, pat) ==
    Len(s) >= Len(pat) /\ SubSeq(s, Len(s) - Len(pat) + 1, Len(s)) = pat

NoText == [has |-> FALSE, v |-> <<>>]

SomeText(s) == [has |-> TRUE, v |-> s]

-----------------------------------------------------------------------------
(* Coordinates (location.py) *)

NoCoord == [path |-> "", lno |-> 0]

Coordinate(path, lno) == [path |-> path, lno |-> lno]

CoordAdd(c, n) == Coordinate(c.path, c.lno + n)

\* Coordinate.line: the text '#line <lno> "<path>"', kept as its two fields
CoordLine(c) == [kind |-> "line", n |-> c.lno, file |-> c.path, text |-> ""]

-----------------------------------------------------------------------------
(* LineList (linelist.py) *)

Entry(coord, text) == [coord |-> coord, text |-> text]

LLAppend(es, line, coord) == Append(es, Entry(coord, line))

LLExtend(es, ls, coord) ==
    es \o [i \in 1..Len(ls) |->
             Entry(IF coord # NoCoord THEN CoordAdd(coord, i - 1) ELSE NoCoord,
                   ls[i])]

\* LineList(lines, coord): the entries of the new list
LineList(ls, coord) ==
    [i \in 1..Len(ls) |->
        Entry(IF coord # NoCoord THEN CoordAdd(coord, i - 1) ELSE NoCoord,
              ls[i])]

\* The operand of + and +=: a LineList, known by its identity, or a list of
\* lines.
ListOperand(id) == [kind |-> "llist", id |-> id, lines |-> <<>>]

LinesOperand(ls) == [kind |-> "list", id |-> 0, lines |-> ls]

\* what + and += put after the entries of the receiver: the entries of the
\* other LineList, or the lines of the list without coordinate
OperandEntries(heap, other) ==
    IF other.kind = "llist" THEN heap[other.id]
    ELSE LLExtend(<<>>, other.lines, NoCoord)

\* self + other: a new LineList; the objects there were stay as they are
LineListAdd_InPlace(heap, a, other) ==
    Append([heap EXCEPT ![a] = @ \o OperandEntries(heap, other)],
           heap[a] \o OperandEntries(heap, other))

LineListAdd(heap, a, other) ==
    Append(heap, heap[a] \o OperandEntries(heap, other))

\* self += other: the entries of the receiver grow
LineListIadd(heap, a, other) ==
    [heap EXCEPT ![a] = @ \o OperandEntries(heap, other)]

\* os.path.basename of a path given as its components
Basename(path) == IF path = <<>> THEN "" ELSE path[Len(path)]

TextLine(text) == [kind |-> "text", n |-> 0, file |-> "", text |-> text]

FileLine(line, fname) ==
    [kind |-> "line", n |-> line, file |-> fname, text |-> ""]

\* the loop state of output before the first entry
OutputStart == [line |-> 1, last |-> NoCoord, stream |-> <<>>]

\* one turn of the loop of output
OutputStep_SelfLine(st, e, fname) ==
    LET coord == e.coord
        s1 == IF coord = NoCoord
              THEN IF st.last # NoCoord
                   THEN [st EXCEPT !.line = st.line + 1,
                                   !.stream = Append(st.stream,
                                                FileLine(st.line, fname))]
                   ELSE st
              ELSE IF st.last = NoCoord \/ CoordAdd(st.last, 1) # coord
                   THEN [st EXCEPT !.stream = Append(st.stream,
                                                     CoordLine(coord)),
                                   !.line = st.line + 1]
                   ELSE st
    IN  [line |-> s1.line + 1,
         last |-> coord,
         stream |-> Append(s1.stream, TextLine(e.text))]

OutputStep_SamePath(st, e, fname) ==
    LET coord == e.coord
        s1 == IF coord = NoCoord
              THEN IF st.last # NoCoord
                   THEN [st EXCEPT !.line = st.line + 1,
                                   !.stream = Append(st.stream,
                                                FileLine(st.line + 1, fname))]
                   ELSE st
              ELSE IF st.last = NoCoord \/ st.last.lno + 1 # coord.lno
                   THEN [st EXCEPT !.stream = Append(st.stream,
                                                     CoordLine(coord)),
                                   !.line = st.line + 1]
                   ELSE st
    IN  [line |-> s1.line + 1,
         last |-> coord,
         stream |-> Append(s1.stream, TextLine(e.text))]

OutputStep(st, e, fname) ==
    LET coord == e.coord
        s1 == IF coord = NoCoord
              THEN IF st.last # NoCoord
                   THEN [st EXCEPT !.line = st.line + 1,
                                   !.stream = Append(st.stream,
                                                FileLine(st.line + 1, fname))]
                   ELSE st
              ELSE IF st.last = NoCoord \/ CoordAdd(st.last, 1) # coord
                   THEN [st EXCEPT !.stream = Append(st.stream,
                                                     CoordLine(coord)),
                                   !.line = st.line + 1]
                   ELSE st
    IN  [line |-> s1.line + 1,
         last |-> coord,
         stream |-> Append(s1.stream, TextLine(e.text))]

RECURSIVE OutputLoop(_, _, _)
OutputLoop(st, es, fname) ==
    IF es = <<>> THEN st
    ELSE OutputLoop(OutputStep(st, Head(es), fname), Tail(es), fname)

\* LineList.output(stream, path): path is <<>> when it is not given
Output(es, streamName, path) ==
    LET p == IF path = <<>> THEN streamName ELSE path
        fname == Basename(p)
    IN  [fname |-> fname,
         stream |-> OutputLoop(OutputStart, es, fname).stream]

-----------------------------------------------------------------------------
(* Tokens and the tokenizer (perfile.py) *)

TOK_WORD == "word"

TOK_CHAR == "char"

TOK_STR == "str"

Token(type_, value) == [type_ |-> type_, value |-> value]

\* the state of _tokenize before the first character; state "none" is None
TokStart == [state |-> "none", buf |-> <<>>, toks |-> <<>>]

TokStep_DigitWord(st, c) ==
    IF st.state = "none"
    THEN IF IsSpace(c) THEN st
         ELSE IF c = "\""
              THEN [st EXCEPT !.state = TOK_STR, !.buf = <<>>]
         ELSE IF c = "_" \/ IsAlnum(c)
              THEN [st EXCEPT !.state = TOK_WORD, !.buf = <<c>>]
         ELSE [st EXCEPT !.toks = Append(@, Token(TOK_CHAR, <<c>>))]
    ELSE IF st.state = TOK_STR
    THEN IF c = "\""
         THEN [st EXCEPT !.toks = Append(@, Token(TOK_STR, st.buf)),
                         !.state = "none"]
         ELSE [st EXCEPT !.buf = Append(@, c)]
    ELSE IF IsSpace(c)
    THEN [st EXCEPT !.toks = Append(@, Token(TOK_WORD, st.buf)),
                    !.state = "none"]
    ELSE IF c = "_" \/ IsAlnum(c)
    THEN [st EXCEPT !.buf = Append(@, c)]
    ELSE IF c = "\""
    THEN [st EXCEPT !.toks = Append(@, Token(TOK_WORD, st.buf)),
                    !.state = TOK_STR, !.buf = <<>>]
    ELSE [st EXCEPT !.toks = Append(Append(@, Token(TOK_WORD, st.buf)),
                                    Token(TOK_CHAR, <<c>>)),
                    !.state = "none"]

\* one turn of the character loop of _tokenize
TokStep(st, c) ==
    IF st.state = "none"
    THEN IF IsSpace(c) THEN st
         ELSE IF c = "\""
              THEN [st EXCEPT !.state = TOK_STR, !.buf = <<>>]
         ELSE IF c = "_" \/ IsAlpha(c)
              THEN [st EXCEPT !.state = TOK_WORD, !.buf = <<c>>]
         ELSE [st EXCEPT !.toks = Append(@, Token(TOK_CHAR, <<c>>))]
    ELSE IF st.state = TOK_STR
    THEN IF c = "\""
         THEN [st EXCEPT !.toks = Append(@, Token(TOK_STR, st.buf)),
                         !.state = "none"]
         ELSE [st EXCEPT !.buf = Append(@, c)]
    ELSE IF IsSpace(c)
    THEN [st EXCEPT !.toks = Append(@, Token(TOK_WORD, st.buf)),
                    !.state = "none"]
    ELSE IF c = "_" \/ IsAlnum(c)
    THEN [st EXCEPT !.buf = Append(@, c)]
    ELSE IF c = "\""
    THEN [st EXCEPT !.toks = Append(@, Token(TOK_WORD, st.buf)),
                    !.state = TOK_STR, !.buf = <<>>]
    ELSE [st EXCEPT !.toks = Append(Append(@, Token(TOK_WORD, st.buf)),
                                    Token(TOK_CHAR, <<c>>)),
                    !.state = "none"]

RECURSIVE TokLoop(_, _)
TokLoop(st, text) ==
    IF text = <<>> THEN st ELSE TokLoop(TokStep(st, Head(text)), Tail(text))

TokEnd_DropsWord(st) ==
    IF st.state = TOK_STR THEN [ok |-> FALSE, toks |-> <<>>]
    ELSE [ok |-> TRUE, toks |-> st.toks]

\* the end of _tokenize: st is the state after the last character; ok is
\* FALSE when ParseException is raised for an unclosed string
TokEnd(st) ==
    IF st.state = TOK_STR THEN [ok |-> FALSE, toks |-> <<>>]
    ELSE IF st.state # "none"
         THEN [ok |-> TRUE, toks |-> Append(st.toks, Token(st.state, st.buf))]
    ELSE [ok |-> TRUE, toks |-> st.toks]

\* list(_tokenize(text, coord))
Tokenize(text) == TokEnd(TokLoop(TokStart, text))

-----------------------------------------------------------------------------
(* Line assembly: PerFileParser._parse_directive *)

CommentAt_OutsideStrings(line) ==
    LET pos == {x \in 0..(Len(line) - 2) :
                   /\ Slice(line, x, x + 2) \in {<<"/", "*">>, <<"/", "/">>}
                   /\ Cardinality({i \in 1..x : line[i] = "\""}) % 2 = 0}
    IN  IF pos = {} THEN -1 ELSE Min(pos)

\* lines 364-369: where the earliest comment starts, -1 when there is none
CommentAt(line) ==
    LET a == Find(line, <<"/", "*">>, 0)
        b == Find(line, <<"/", "/">>, 0)
        pos == {x \in {a, b} : x >= 0}
    IN  IF pos = {} THEN -1 ELSE Min(pos)

CommentClose_NoSpace(line, comment, end) ==
    IF end < 0
    THEN [kind |-> "hang", line |-> Slice(line, 0, comment)]
    ELSE [kind |-> "again",
          line |-> Slice(line, 0, comment) \o Slice(line, end + 2, Len(line))]

\* lines 380-389: a block comment starts at comment and its closer was
\* looked for, end is where it was found
CommentClose(line, comment, end) ==
    IF end < 0
    THEN [kind |-> "hang", line |-> Slice(line, 0, comment)]
    ELSE [kind |-> "again",
          line |-> Slice(line, 0, comment) \o <<" ">>
                   \o Slice(line, end + 2, Len(line))]

\* lines 365-389, with comment the place the earliest comment starts
CommentCut(line, comment) ==
    IF comment < 0 THEN [kind |-> "done", line |-> line]
    ELSE IF Slice(line, comment, comment + 2) = <<"/", "/">>
    THEN [kind |-> "done", line |-> Slice(line, 0, comment)]
    ELSE CommentClose(line, comment,
                      Find(line, <<"*", "/">>, comment + 2))

\* one turn of the comment loop: "done" leaves the loop, "hang" raises
\* Continue with the prefix to keep, "again" loops around
CommentStep(line) == CommentCut(line, CommentAt(line))

RECURSIVE CommentLoop(_)
CommentLoop(line) ==
    LET r == CommentStep(line)
    IN  IF r.kind = "again" THEN CommentLoop(r.line) ELSE r

\* The result of _parse_directive: exc is "none" (returned), "Continue" or
\* "ParseException"; coord and toks are the returned pair (coord is also the
\* coordinate of the message); text is the assembled line; ps is the parser
\* state as the call leaves it.
PDResult(exc, what, coord, toks, text, ps) ==
    [exc |-> exc, what |-> what, coord |-> coord, toks |-> toks,
     text |-> text, ps |-> ps]

\* line 416: the line starts with "%" and t is what _tokenize made of
\* the rest
ParseDirectiveToks(ps, coord, line, t) ==
    IF ~t.ok
    THEN PDResult("ParseException", "unclosed_string", coord, <<>>, line, ps)
    ELSE PDResult("none", "", coord, t.toks, line, ps)

\* lines 411-416: line is complete; coord is where it started and ps has
\* that coordinate cleared
ParseDirectiveDone(ps, coord, line) ==
    IF line[1] # "%"
    THEN PDResult("ParseException", "invalid_directive", coord, <<>>, line,
                  ps)
    ELSE ParseDirectiveToks(ps, coord, line,
                            Tokenize(Slice(line, 1, Len(line))))

\* lines 394-408, once the comments are gone and the line is stripped
ParseDirectiveTail(ps, coord, line) ==
    IF line = <<>>
    THEN PDResult("Continue", "", NoCoord, <<>>, line, ps)
    ELSE IF line[Len(line)] = "\\"
    THEN PDResult("Continue", "", NoCoord, <<>>, line,
             [ps EXCEPT !.continued = SomeText(Slice(line, 0, Len(line) - 1)),
                        !.start_coord = IF @ = NoCoord THEN coord ELSE @])
    ELSE ParseDirectiveDone([ps EXCEPT !.start_coord = NoCoord],
                            IF ps.start_coord # NoCoord THEN ps.start_coord
                            ELSE coord,
                            line)

\* lines 381-394: r is what the comment loop ended with
ParseDirectiveComments(ps, coord, r) ==
    IF r.kind = "hang"
    THEN PDResult("Continue", "", NoCoord, <<>>, <<>>,
             [ps EXCEPT !.comment_pfx = SomeText(r.line),
                        !.start_coord = IF @ = NoCoord THEN coord ELSE @])
    ELSE ParseDirectiveTail(ps, coord, Strip(r.line))

\* line 359: the text the comment loop starts on, with end the place of the
\* first "*/" of line
Scanned(ps, line, end) ==
    IF ps.comment_pfx.has
    THEN ps.comment_pfx.v \o <<" ">> \o Slice(line, end + 2, Len(line))
    ELSE line

\* lines 349-361: line is the input line behind any continued text and end
\* is where it has its first "*/"; ps has the continued text cleared
ParseDirectiveOpen(ps, coord, line, end) ==
    IF ps.comment_pfx.has /\ end < 0
    THEN PDResult("Continue", "", NoCoord, <<>>, <<>>, ps)
    ELSE ParseDirectiveComments(
             [ps EXCEPT !.comment_pfx = NoText], coord,
             CommentLoop(Scanned(ps, line, end)))

Continued_NoSpace(ps, line) ==
    IF ps.continued.has THEN ps.continued.v \o line ELSE line

\* lines 344-346: the input line behind the continued text, if any
Continued(ps, line) ==
    IF ps.continued.has THEN ps.continued.v \o <<" ">> \o line ELSE line

\* _parse_directive(coord, line)
ParseDirective(ps, coord, line) ==
    ParseDirectiveOpen([ps EXCEPT !.continued = NoText], coord,
                       Continued(ps, line),
                       Find(Continued(ps, line), <<"*", "/">>, 0))

-----------------------------------------------------------------------------
(* Token helpers (perfile.py, hypofile.py) *)

\* the token None
NoTok == [type_ |-> "", value |-> <<>>]

CharTok(c) == Token(TOK_CHAR, <<c>>)

RECURSIVE SplitLoop(_, _, _, _)
SplitLoop(toks, delims, stack, acc) ==
    IF toks = <<>>
    THEN Append(acc, [stack |-> stack, delim |-> NoTok])
    ELSE IF Head(toks) \in delims
    THEN SplitLoop(Tail(toks), delims, <<>>,
                   Append(acc, [stack |-> stack, delim |-> Head(toks)]))
    ELSE SplitLoop(Tail(toks), delims, Append(stack, Head(toks)), acc)

\* list(split_toks(toks, delims, True))
SplitToks(toks, delims) == SplitLoop(toks, delims, <<>>, <<>>)

\* list(_extract_type(toks, delims))
ExtractType(toks, delims) ==
    LET parts == SplitToks(toks, delims)
    IN  [i \in 1..Len(parts) |->
            LET stack == parts[i].stack
            IN  [type_ |-> Slice(stack, 0, Len(stack) - 1),
                 name |-> IF stack # <<>> THEN stack[Len(stack)] ELSE NoTok,
                 delim |-> parts[i].delim]]

RECURSIVE JoinSp(_)
JoinSp(parts) ==
    IF parts = <<>> THEN <<>>
    ELSE IF Len(parts) = 1 THEN parts[1]
    ELSE parts[1] \o <<" ">> \o JoinSp(Tail(parts))

\* the loop of _make_type: acc is the list type_, last is last_tok
RECURSIVE MakeTypeLoop(_, _, _)
MakeTypeLoop(toks, acc, last) ==
    IF toks = <<>> THEN [ok |-> TRUE, v |-> JoinSp(acc)]
    ELSE LET tok == Head(toks)
         IN  IF tok.type_ # TOK_WORD /\ tok # CharTok("*")
             THEN [ok |-> FALSE, v |-> <<>>]
             ELSE IF last # NoTok /\ tok.type_ = TOK_CHAR
                     /\ last.type_ = TOK_CHAR
             THEN MakeTypeLoop(Tail(toks),
                      [acc EXCEPT ![Len(acc)] = @ \o tok.value], tok)
             ELSE MakeTypeLoop(Tail(toks), Append(acc, tok.value), tok)

\* _make_type(toks, directive, coord)
MakeType_Spaced(toks) ==
    IF \E i \in 1..Len(toks) :
           toks[i].type_ # TOK_WORD /\ toks[i] # CharTok("*")
    THEN [ok |-> FALSE, v |-> <<>>]
    ELSE [ok |-> TRUE, v |-> JoinSp([i \in 1..Len(toks) |-> toks[i].value])]

MakeType(toks) == MakeTypeLoop(toks, <<>>, NoTok)

-----------------------------------------------------------------------------
(* The value-map and the directive results (hypofile.py) *)

W_target == <<"t", "a", "r", "g", "e", "t">>

W_preamble == <<"p", "r", "e", "a", "m", "b", "l", "e">>

W_mock == <<"m", "o", "c", "k">>

W_test == <<"t", "e", "s", "t">>

W_fixture == <<"f", "i", "x", "t", "u", "r", "e">>

W_teardown == <<"t", "e", "a", "r", "d", "o", "w", "n">>

W_void == <<"v", "o", "i", "d">>

\* the names registered in HypoParser.DIRECTIVES
DIRECTIVES == {W_target, W_preamble, W_mock, W_test, W_fixture}

\* HypoParser._values(): dictionaries are lists of (key, value) pairs in
\* insertion order
InitialValues ==
    [target |-> NoText, preamble |-> <<>>, mocks |-> <<>>, tests |-> <<>>,
     fixtures |-> <<>>]

HasKey(d, k) == \E i \in 1..Len(d) : d[i].key = k

\* d[k] = v
DictSet_KeepFirst(d, k, v) ==
    IF HasKey(d, k) THEN d ELSE Append(d, [key |-> k, val |-> v])

DictSet(d, k, v) ==
    IF HasKey(d, k)
    THEN [i \in 1..Len(d) |-> IF d[i].key = k THEN [key |-> k, val |-> v]
                              ELSE d[i]]
    ELSE Append(d, [key |-> k, val |-> v])

DictGet(d, k) == d[CHOOSE i \in 1..Len(d) : d[i].key = k].val

\* Coordinate.__sub__(Coordinate) on one path
CoordRange(a, b) ==
    [path |-> a.path,
     start |-> IF a.lno < b.lno THEN a.lno ELSE b.lno,
     end |-> IF a.lno < b.lno THEN b.lno ELSE a.lno]

\* a - b for two coordinates: NotImplemented when the paths differ, which
\* Python turns into TypeError since a Coordinate has no reflected operation
NoRange == [path |-> "", start |-> 0, end |-> 0]

CoordSub_Ordered(a, b) ==
    IF a.path # b.path THEN [exc |-> "TypeError", range |-> NoRange]
    ELSE [exc |-> "none",
          range |-> [path |-> a.path, start |-> b.lno, end |-> a.lno]]

CoordSub(a, b) ==
    IF a.path # b.path THEN [exc |-> "TypeError", range |-> NoRange]
    ELSE [exc |-> "none", range |-> CoordRange(a, b)]

\* a LineList or None
NoList == [has |-> FALSE, es |-> <<>>]

List(es) == [has |-> TRUE, es |-> es]

\* The callable a handler returns: kind "none" is None, "preamble" and
\* "test" are the directive objects, "fixture" is the FixtureDirective
\* object and "teardown" its bound method teardown.
NoDeferred ==
    [kind |-> "none", name |-> <<>>, type_ |-> NoText, fixtures |-> <<>>,
     start_coord |-> NoCoord, block_start |-> NoCoord, code |-> NoList]

\* What a handler or continuation call did: ok is FALSE when it raised
\* ParseException (what and loc describe the message), values is the
\* value-map after the call and next is the callable it returned.
HResult(ok, what, loc, vals, next) ==
    [ok |-> ok, what |-> what, loc |-> loc, values |-> vals, next |-> next]

HRaise(what, loc, vals) == HResult(FALSE, what, loc, vals, NoDeferred)

HDone(vals) == HResult(TRUE, "", NoCoord, vals, NoDeferred)

\* target_directive
TargetDirective(vals, sc, toks) ==
    IF Len(toks) # 1 \/ toks[1].type_ # TOK_STR \/ toks[1].value = <<>>
    THEN HRaise("invalid_target", sc, vals)
    ELSE HDone([vals EXCEPT !.target = SomeText(toks[1].value)])

\* PreambleDirective.__init__
PreambleInit(vals, sc, toks) ==
    IF Len(toks) # 1 \/ toks[1] # CharTok("{")
    THEN HRaise("invalid_preamble", sc, vals)
    ELSE HResult(TRUE, "", NoCoord, vals,
                 [NoDeferred EXCEPT !.kind = "preamble", !.start_coord = sc])

\* PreambleDirective.__call__: toks is [none, toks], none for None
PreambleCall(d, vals, ec, b, toks) ==
    IF toks.none THEN HRaise("unclosed_preamble", d.start_coord, vals)
    ELSE IF Len(toks.toks) # 0 THEN HRaise("invalid_end_preamble", ec, vals)
    ELSE HDone([vals EXCEPT !.preamble =
                   Append(@, [coord_range |-> CoordRange(d.start_coord, ec),
                              code |-> List(b)])])

\* the fixture loop of TestDirective.__init__ over the comma-separated parts
RECURSIVE TestFixtures(_, _)
TestFixtures(parts, acc) ==
    IF parts = <<>> THEN [ok |-> TRUE, fixtures |-> acc]
    ELSE LET ft0 == Head(parts).stack
         IN  IF Len(ft0) < 1 \/ Len(ft0) > 2
             THEN [ok |-> FALSE, fixtures |-> acc]
             ELSE LET bang == ft0[1] = CharTok("!")
                      ft == IF bang THEN Tail(ft0) ELSE ft0
                  IN  IF Len(ft) # 1 \/ ft[1].type_ # TOK_WORD
                         \/ ft[1].value = <<>>
                      THEN [ok |-> FALSE, fixtures |-> acc]
                      ELSE TestFixtures(Tail(parts),
                               Append(acc, [fixture |-> ft[1].value,
                                            inject |-> ~bang]))

\* TestDirective.__init__
TestInit(vals, sc, toks) ==
    LET n == Len(toks)
    IN  IF n < 2 \/ toks[1].type_ # TOK_WORD \/ toks[1].value = <<>>
           \/ toks[n] # CharTok("{")
        THEN HRaise("invalid_test", sc, vals)
        ELSE IF n > 2
        THEN IF toks[2] # CharTok("(") \/ toks[n - 1] # CharTok(")")
             THEN HRaise("invalid_test", sc, vals)
             ELSE LET f == TestFixtures(
                               SplitToks(Slice(toks, 2, n - 2),
                                         {CharTok(",")}), <<>>)
                  IN  IF ~f.ok THEN HRaise("invalid_test_fixture", sc, vals)
                      ELSE HResult(TRUE, "", NoCoord, vals,
                               [NoDeferred EXCEPT !.kind = "test",
                                                  !.name = toks[1].value,
                                                  !.fixtures = f.fixtures,
                                                  !.start_coord = sc])
        ELSE HResult(TRUE, "", NoCoord, vals,
                 [NoDeferred EXCEPT !.kind = "test", !.name = toks[1].value,
                                    !.start_coord = sc])

\* TestDirective.__call__
TestCall(d, vals, ec, b, toks) ==
    IF toks.none THEN HRaise("unclosed_test", d.start_coord, vals)
    ELSE IF Len(toks.toks) # 0 THEN HRaise("invalid_end_test", ec, vals)
    ELSE HDone([vals EXCEPT !.tests =
                   DictSet(@, d.name,
                       [coord_range |-> CoordRange(d.start_coord, ec),
                        name |-> d.name, code |-> List(b),
                        fixtures |-> d.fixtures])])

MockDelims == {CharTok("("), CharTok(","), CharTok(")")}

\* "void foo()" and "void foo(void)": the closing parenthesis comes with no
\* argument before it and with nothing or the word void in front
NoArguments_Bare(it, args) ==
    it.delim = CharTok(")") /\ args = <<>> /\ it.type_ = <<>> /\ it.name = NoTok

NoArguments(it, args) ==
    /\ it.delim = CharTok(")")
    /\ args = <<>>
    /\ it.type_ = <<>>
    /\ (it.name = NoTok \/ it.name = Token(TOK_WORD, W_void))

\* the argument loop of mock: items are the remaining (type, name, delim)
RECURSIVE MockArgs(_, _, _)
MockArgs(items, end_expected, args) ==
    IF items = <<>> THEN [ok |-> TRUE, what |-> "", args |-> args]
    ELSE LET it == Head(items)
             bad(w) == [ok |-> FALSE, what |-> w, args |-> args]
             arg == IF it.type_ = <<>> \/ it.name = NoTok
                       \/ it.name.type_ # TOK_WORD \/ it.name.value = <<>>
                       \/ it.delim = CharTok("(")
                    THEN bad("invalid_mock")
                    ELSE LET t == MakeType(it.type_)
                         IN  IF ~t.ok THEN bad("invalid_mock")
                             ELSE MockArgs(Tail(items),
                                      end_expected \/ it.delim = CharTok(")"),
                                      Append(args, [type_ |-> t.v,
                                                    name |-> it.name.value]))
         IN  IF end_expected
             THEN IF it.type_ # <<>> \/ it.name # NoTok \/ it.delim # NoTok
                  THEN bad("unexpected_mock")
                  ELSE MockArgs(Tail(items), end_expected, args)
             ELSE IF it.delim = NoTok THEN bad("premature_mock")
             ELSE IF NoArguments(it, args)
             THEN MockArgs(Tail(items), TRUE, args)
             ELSE arg

\* mock
MockDirective(vals, sc, toks) ==
    LET items == ExtractType(toks, MockDelims)
        first == items[1]
    IN  IF first.type_ = <<>> \/ first.name.type_ # TOK_WORD
           \/ first.name.value = <<>> \/ first.delim # CharTok("(")
        THEN HRaise("invalid_mock", sc, vals)
        ELSE LET rt == MakeType(first.type_)
             IN  IF ~rt.ok THEN HRaise("invalid_mock", sc, vals)
                 ELSE LET a == MockArgs(Tail(items), FALSE, <<>>)
                      IN  IF ~a.ok THEN HRaise(a.what, sc, vals)
                          ELSE HDone([vals EXCEPT !.mocks =
                                   DictSet(@, first.name.value,
                                       [coord_range |-> CoordRange(sc, sc),
                                        name |-> first.name.value,
                                        return_type |-> rt.v,
                                        args |-> a.args])])

\* the loop of FixtureDirective.__init__: d is the object being set up
RECURSIVE FixtureItems(_, _, _, _, _)
FixtureItems(items, end_expected, d, vals, sc) ==
    IF items = <<>> THEN HResult(TRUE, "", NoCoord, vals, d)
    ELSE LET it == Head(items)
         IN  IF end_expected
             THEN IF it.type_ # <<>> \/ it.name # NoTok \/ it.delim # NoTok
                  THEN HRaise("unexpected_fixture", sc, vals)
                  ELSE FixtureItems(Tail(items), end_expected, d, vals, sc)
             ELSE IF it.delim = NoTok
             THEN HRaise("premature_fixture", sc, vals)
             ELSE IF it.name = NoTok \/ it.name.type_ # TOK_WORD
                     \/ it.name.value = <<>>
             THEN HRaise("invalid_fixture", sc, vals)
             ELSE IF it.type_ = <<>> \/ it.type_ = <<Token(TOK_WORD, W_void)>>
             THEN FixtureItems(Tail(items), TRUE,
                      [d EXCEPT !.kind = "fixture", !.name = it.name.value,
                                !.type_ = NoText, !.start_coord = sc,
                                !.block_start = sc], vals, sc)
             ELSE LET t == MakeType(it.type_)
                  IN  IF ~t.ok THEN HRaise("invalid_fixture", sc, vals)
                      ELSE FixtureItems(Tail(items), TRUE,
                               [d EXCEPT !.kind = "fixture",
                                         !.name = it.name.value,
                                         !.type_ = SomeText(t.v),
                                         !.start_coord = sc,
                                         !.block_start = sc], vals, sc)

\* FixtureDirective.__init__
FixtureInit(vals, sc, toks) ==
    FixtureItems(ExtractType(toks, {CharTok("{")}), FALSE, NoDeferred, vals,
                 sc)

\* FixtureDirective.__call__
FixtureCall_Lenient(d, vals, ec, b, toks) ==
    IF toks.none THEN HRaise("unclosed_fixture", d.block_start, vals)
    ELSE IF toks.toks # <<>>
    THEN HResult(TRUE, "", NoCoord, vals,
             [d EXCEPT !.kind = "teardown", !.code = List(b), !.block_start = ec])
    ELSE HDone([vals EXCEPT !.fixtures =
                   DictSet(@, d.name,
                       [coord_range |-> CoordRange(d.start_coord, ec),
                        name |-> d.name, return_type |-> d.type_,
                        code |-> List(b), teardown |-> NoList])])

FixtureCall(d, vals, ec, b, toks) ==
    IF toks.none THEN HRaise("unclosed_fixture", d.block_start, vals)
    ELSE IF Len(toks.toks) # 0
            /\ toks.toks # <<Token(TOK_WORD, W_teardown), CharTok("{")>>
    THEN HRaise("invalid_teardown", ec, vals)
    ELSE IF toks.toks # <<>>
    THEN HResult(TRUE, "", NoCoord, vals,
             [d EXCEPT !.kind = "teardown", !.code = List(b), !.block_start = ec])
    ELSE HDone([vals EXCEPT !.fixtures =
                   DictSet(@, d.name,
                       [coord_range |-> CoordRange(d.start_coord, ec),
                        name |-> d.name, return_type |-> d.type_,
                        code |-> List(b), teardown |-> NoList])])

\* FixtureDirective.teardown
FixtureTeardown_NoCode(d, vals, ec, b, toks) ==
    IF toks.none THEN HRaise("unclosed_teardown", d.block_start, vals)
    ELSE IF Len(toks.toks) # 0 THEN HRaise("invalid_end_teardown", ec, vals)
    ELSE HDone([vals EXCEPT !.fixtures =
                   DictSet(@, d.name,
                       [coord_range |-> CoordRange(d.start_coord, ec),
                        name |-> d.name, return_type |-> d.type_,
                        code |-> List(b), teardown |-> List(b)])])

FixtureTeardown(d, vals, ec, b, toks) ==
    IF toks.none THEN HRaise("unclosed_teardown", d.block_start, vals)
    ELSE IF Len(toks.toks) # 0 THEN HRaise("invalid_end_teardown", ec, vals)
    ELSE HDone([vals EXCEPT !.fixtures =
                   DictSet(@, d.name,
                       [coord_range |-> CoordRange(d.start_coord, ec),
                        name |-> d.name, return_type |-> d.type_,
                        code |-> d.code, teardown |-> List(b)])])

\* Directive.__call__ of the directive registered under name
DirectiveCall(name, vals, sc, toks) ==
    IF name = W_target THEN TargetDirective(vals, sc, toks)
    ELSE IF name = W_preamble THEN PreambleInit(vals, sc, toks)
    ELSE IF name = W_mock THEN MockDirective(vals, sc, toks)
    ELSE IF name = W_test THEN TestInit(vals, sc, toks)
    ELSE FixtureInit(vals, sc, toks)

\* calling the deferred callable d
DeferredCall(d, vals, ec, b, toks) ==
    IF d.kind = "preamble" THEN PreambleCall(d, vals, ec, b, toks)
    ELSE IF d.kind = "test" THEN TestCall(d, vals, ec, b, toks)
    ELSE IF d.kind = "fixture" THEN FixtureCall(d, vals, ec, b, toks)
    ELSE FixtureTeardown(d, vals, ec, b, toks)

-----------------------------------------------------------------------------
(* The registered directives and the value-map of a parse (perfile.py) *)

\* The init argument of a registration: not given, a callable that makes a
\* collection, or a value used as it is, known by its identity (0 is None).
InitUnset == [kind |-> "unset", obj |-> 0]

InitFactory == [kind |-> "callable", obj |-> 0]

InitValue(obj) == [kind |-> "value", obj |-> obj]

Registration(directive, value, init) ==
    [directive |-> directive, value |-> value, init |-> init]

\* HypoParser.DIRECTIVES and TemplateParser.DIRECTIVES
HypoDirectives ==
    <<Registration("target", "target", InitValue(0)),
      Registration("preamble", "preamble", InitFactory),
      Registration("mock", "mocks", InitFactory),
      Registration("test", "tests", InitFactory),
      Registration("fixture", "fixtures", InitFactory)>>

TemplateDirectives ==
    <<Registration("insert", "structure", InitFactory),
      Registration("literal", "literal", InitUnset),
      Registration("define", "defines", InitFactory),
      Registration("section", "sections", InitFactory)>>

DirectivesOf(cls) ==
    IF cls = "HypoParser" THEN HypoDirectives ELSE TemplateDirectives

\* Directive.initial(): the identity of the initial value, next being the
\* identity of the object a call of the factory makes
DirectiveInitial_Verbatim(d, next) ==
    IF d.init.kind = "callable" THEN 1 ELSE d.init.obj

DirectiveInitial(d, next) ==
    IF d.init.kind = "callable" THEN next ELSE d.init.obj

\* PerFileParser._values(): st holds the value-map built so far, the
\* collections there are and the identity of the next object
RECURSIVE ValuesLoop(_, _, _)
ValuesLoop(ds, i, st) ==
    IF i > Len(ds) THEN st
    ELSE IF ds[i].init.kind = "unset" THEN ValuesLoop(ds, i + 1, st)
    ELSE ValuesLoop(
             ds, i + 1,
             [values |-> Append(st.values,
                                [key |-> ds[i].value,
                                 ref |-> DirectiveInitial(ds[i], st.next),
                                 set |-> <<>>]),
              heap |-> IF ds[i].init.kind = "callable"
                       THEN DictSet(st.heap, DirectiveInitial(ds[i], st.next),
                                    <<>>)
                       ELSE st.heap,
              next |-> IF ds[i].init.kind = "callable" THEN st.next + 1
                       ELSE st.next])

ParserValues_EveryDirective(cls, heap) ==
    ValuesLoop([i \in 1..Len(DirectivesOf(cls)) |->
                   IF DirectivesOf(cls)[i].init.kind = "unset"
                   THEN [DirectivesOf(cls)[i] EXCEPT !.init = InitValue(0)]
                   ELSE DirectivesOf(cls)[i]], 1,
               [values |-> <<>>, heap |-> heap, next |-> Len(heap) + 1])

ParserValues(cls, heap) ==
    ValuesLoop(DirectivesOf(cls), 1,
               [values |-> <<>>, heap |-> heap, next |-> Len(heap) + 1])

\* what a handler does with the value-map: it adds to the collection under
\* its key (lines 394, 496, 606, 717 of hypofile.py, 249, 321, 397, 499 of
\* template.py), or binds the key anew (line 324 of hypofile.py)
HandlerStore(vals, heap, k, item) ==
    IF vals[k].ref = 0
    THEN [values |-> [vals EXCEPT ![k].set = <<item>>], heap |-> heap]
    ELSE [values |-> vals,
          heap |-> DictSet(heap, vals[k].ref,
                           Append(DictGet(heap, vals[k].ref), item))]

\* the value-map as its holder reads it: under each key the value bound or
\* the items of the collection
ValuesRead(vals, heap) ==
    [k \in 1..Len(vals) |->
        [key |-> vals[k].key,
         items |-> IF vals[k].ref = 0 THEN vals[k].set
                   ELSE DictGet(heap, vals[k].ref)]]

-----------------------------------------------------------------------------
(* PerFileParser._parse_line and PerFileParser.parse *)

\* PerFileParser.__init__ and the value-map parse starts with
NewParser ==
    [deferred |-> NoDeferred, buf |-> NoList, comment_pfx |-> NoText,
     continued |-> NoText, start_coord |-> NoCoord, lines |-> 0,
     values |-> InitialValues]

\* A call of a directive handler ("handler") or of the deferred callable
\* ("deferred"): who names the directive or the kind of callable.
Call(kind, who, coord, b, toks, h) ==
    [kind |-> kind, who |-> who, coord |-> coord, buf |-> b, toks |-> toks,
     ok |-> h.ok, next |-> h.next.kind]

SomeToks(toks) == [none |-> FALSE, toks |-> toks]

NoneToks == [none |-> TRUE, toks |-> <<>>]

\* The result of _parse_line: exc as for _parse_directive; mode is the
\* branch taken ("directive", "close" or "body"); text is the assembled
\* line and toks its tokens when a line was completed; call holds the call
\* made, if any.
PLResult(exc, what, loc, ps, mode, pd, call) ==
    [exc |-> exc, what |-> what, loc |-> loc, ps |-> ps, mode |-> mode,
     completed |-> pd.exc = "none", text |-> pd.text, toks |-> pd.toks,
     dir_coord |-> pd.coord, call |-> call]

NoPD == PDResult("", "", NoCoord, <<>>, <<>>, NewParser)

\* lines 450-451: the tokens name a registered directive
ValidDirective_AnyWord(toks) ==
    ~(toks = <<>> \/ toks[1].type_ # TOK_WORD)

ValidDirective(toks) ==
    ~(toks = <<>> \/ toks[1].type_ # TOK_WORD
      \/ toks[1].value \notin DIRECTIVES)

\* line 469: the tokens begin with the closing brace
CloseDirective_AnyToken(toks) == ~(toks = <<>>)

CloseDirective(toks) == ~(toks = <<>> \/ toks[1] # CharTok("}"))

\* lines 460 and 476: the buffer that goes with the callable just returned
NewBuf_Always(next) == List(<<>>)

NewBuf(next) == IF next.kind # "none" THEN List(<<>>) ELSE NoList

\* line 480: accumulate another line
Accumulate_KeepNewline(b, line, coord) == List(LLAppend(b.es, line, coord))

Accumulate(b, line, coord) ==
    List(LLAppend(b.es,
                  IF EndsWith(line, <<"\n">>)
                  THEN Slice(line, 0, Len(line) - 1) ELSE line,
                  coord))

LooksLikeDirective_OnlyPercent(ps, line) ==
    StartsWith(LStrip(line), <<"%">>)

\* line 463-464: the line is looked at as a directive while a body is open
LooksLikeDirective(ps, line) ==
    ps.comment_pfx.has \/ ps.continued.has
    \/ StartsWith(LStrip(line), <<"%">>)

\* lines 457-460 and 473-476: the handler or the deferred callable was
\* called for the line r and h is what the call did
Called(r, mode, kind, who, b, h) ==
    IF ~h.ok
    THEN PLResult("ParseException", h.what, h.loc,
                  [r.ps EXCEPT !.values = h.values], mode, r,
                  <<Call(kind, who, r.coord, b, SomeToks(Tail(r.toks)), h)>>)
    ELSE PLResult("none", "", NoCoord,
                  [r.ps EXCEPT !.values = h.values, !.deferred = h.next,
                               !.buf = NewBuf(h.next)], mode, r,
                  <<Call(kind, who, r.coord, b, SomeToks(Tail(r.toks)), h)>>)

\* lines 445-460: no body is open and r is what _parse_directive made of
\* the line
DirectiveLine(r) ==
    IF r.exc # "none"
    THEN PLResult(r.exc, r.what, r.coord, r.ps, "directive", r, <<>>)
    ELSE IF ~ValidDirective(r.toks)
    THEN PLResult("ParseException", "invalid_directive", r.coord, r.ps,
                  "directive", r, <<>>)
    ELSE Called(r, "directive", "handler", r.toks[1].value, <<>>,
                DirectiveCall(r.toks[1].value, r.ps.values, r.coord,
                              Tail(r.toks)))

\* lines 463-476: a body is open and r is what _parse_directive made of
\* the line
CloseLine(r) ==
    IF r.exc # "none"
    THEN PLResult(r.exc, r.what, r.coord, r.ps, "close", r, <<>>)
    ELSE IF ~CloseDirective(r.toks)
    THEN PLResult("ParseException", "invalid_directive", r.coord, r.ps,
                  "close", r, <<>>)
    ELSE Called(r, "close", "deferred", r.ps.deferred.kind, r.ps.buf.es,
                DeferredCall(r.ps.deferred, r.ps.values, r.coord,
                             r.ps.buf.es, SomeToks(Tail(r.toks))))

\* lines 478-480: the line is part of the body
BodyLine(ps, coord, line) ==
    PLResult("none", "", NoCoord,
             [ps EXCEPT !.buf = Accumulate(@, line, coord)], "body", NoPD,
             <<>>)

\* lines 443-480, with the line counted
ParseLineCounted(ps, coord, line) ==
    IF ps.deferred.kind = "none"
    THEN DirectiveLine(ParseDirective(ps, coord, line))
    ELSE IF LooksLikeDirective(ps, line)
    THEN CloseLine(ParseDirective(ps, coord, line))
    ELSE BodyLine(ps, coord, line)

\* _parse_line(coord, line, values)
ParseLine(ps, coord, line) ==
    ParseLineCounted([ps EXCEPT !.lines = @ + 1], coord, line)

\* the try/except around _parse_line in the loop of parse: TRUE when the
\* loop goes on to the next line, FALSE when the exception leaves parse
LoopGoesOn_OnlyTopLevel(r, ps) ==
    r.exc = "none" \/ (r.exc = "Continue" /\ ps.deferred.kind = "none")

LoopGoesOn(r, ps) == r.exc = "none" \/ r.exc = "Continue"

\* lines 521, 528 and 535: what parse finds pending once the stream is
\* exhausted, in the order it looks
EndPending_IgnoresComment(ps) ==
    IF ps.continued.has THEN "continuation"
    ELSE IF ps.deferred.kind # "none" THEN "directive"
    ELSE "none"

EndPending(ps) ==
    IF ps.continued.has THEN "continuation"
    ELSE IF ps.comment_pfx.has THEN "comment"
    ELSE IF ps.deferred.kind # "none" THEN "directive"
    ELSE "none"

\* lines 535-542: the deferred callable was given its chance to complain
\* and h is what it did
ParseEndDeferred_Fallback(ps, ec, h) ==
    [exc |-> "ParseException", what |-> "unclosed_directive",
     loc |-> NoCoord,
     call |-> <<Call("deferred", ps.deferred.kind, ec, ps.buf.es,
                     NoneToks, h)>>]

ParseEndDeferred(ps, ec, h) ==
    IF ~h.ok
    THEN [exc |-> "ParseException", what |-> h.what, loc |-> h.loc,
          call |-> <<Call("deferred", ps.deferred.kind, ec, ps.buf.es,
                          NoneToks, h)>>]
    ELSE [exc |-> "ParseException", what |-> "unclosed_directive",
          loc |-> NoCoord,
          call |-> <<Call("deferred", ps.deferred.kind, ec, ps.buf.es,
                          NoneToks, h)>>]

\* lines 520-544, with pending what parse found pending and h what the
\* deferred callable does when it is called
ParseEndOn_Trusting(ps, path, pending, h) ==
    IF pending = "continuation"
    THEN [exc |-> "ParseException", what |-> "trailing_continuation",
          loc |-> ps.start_coord, call |-> <<>>]
    ELSE IF pending = "comment"
    THEN [exc |-> "ParseException", what |-> "unclosed_comment",
          loc |-> ps.start_coord, call |-> <<>>]
    ELSE IF pending = "directive" /\ ~h.ok
    THEN ParseEndDeferred(ps, Coordinate(path, ps.lines), h)
    ELSE [exc |-> "none", what |-> "", loc |-> NoCoord,
          call |-> IF pending = "directive"
                   THEN ParseEndDeferred(ps, Coordinate(path, ps.lines),
                                         h).call
                   ELSE <<>>]

ParseEndOn(ps, path, pending, h) ==
    IF pending = "continuation"
    THEN [exc |-> "ParseException", what |-> "trailing_continuation",
          loc |-> ps.start_coord, call |-> <<>>]
    ELSE IF pending = "comment"
    THEN [exc |-> "ParseException", what |-> "unclosed_comment",
          loc |-> ps.start_coord, call |-> <<>>]
    ELSE IF pending = "directive"
    THEN ParseEndDeferred(ps, Coordinate(path, ps.lines), h)
    ELSE [exc |-> "none", what |-> "", loc |-> NoCoord, call |-> <<>>]

\* the deferred callable of the program called at the end of the file
EndCall(ps, path) ==
    DeferredCall(ps.deferred, ps.values, Coordinate(path, ps.lines),
                 ps.buf.es, NoneToks)

\* What parse does once the stream is exhausted: exc "none" means the
\* value-map is returned.
ParseEnd(ps, path) ==
    ParseEndOn(ps, path, EndPending(ps), EndCall(ps, path))

-----------------------------------------------------------------------------
(* Section templates (template.py) *)

\* A value of the keyword arguments: a str, None, an int, a list of str or
\* a LineList.  The lines of a list are entries without coordinate.
StrVal(s) == [t |-> "str", s |-> s, n |-> 0, es |-> <<>>]

NoneVal == [t |-> "none", s |-> <<>>, n |-> 0, es |-> <<>>]

IntVal(n) == [t |-> "int", s |-> <<>>, n |-> n, es |-> <<>>]

ListVal(ls) ==
    [t |-> "list", s |-> <<>>, n |-> 0,
     es |-> [i \in 1..Len(ls) |-> Entry(NoCoord, ls[i])]]

LineListVal(es) == [t |-> "llist", s |-> <<>>, n |-> 0, es |-> es]

Capitals == {"A", "B", "C", "D", "E", "F", "G", "H", "I", "J", "K", "L", "M",
             "N", "O", "P", "Q", "R", "S", "T", "U", "V", "W", "X", "Y", "Z"}

\* [a-zA-Z_] and [a-zA-Z0-9_] of SUBST_RE
IsIdentStart(c) == c \in Letters \cup Capitals \cup {"_"}

IsIdentChar(c) == c \in Letters \cup Capitals \cup Digits \cup {"_"}

\* \s* from position i: the position of the first character that is no space
RECURSIVE SkipSpace(_, _)
SkipSpace(s, i) ==
    IF i < Len(s) /\ IsSpace(s[i + 1]) THEN SkipSpace(s, i + 1) ELSE i

\* [a-zA-Z0-9_]* from position i
RECURSIVE IdentEnd(_, _)
IdentEnd(s, i) ==
    IF i < Len(s) /\ IsIdentChar(s[i + 1]) THEN IdentEnd(s, i + 1) ELSE i

NoMatch == [ok |-> FALSE, name |-> <<>>, end |-> 0]

\* the closing \}\} at position e, after the identifier s[j:k]
SubstTail(s, j, k, e) ==
    IF Slice(s, e, e + 2) = <<"}", "}">>
    THEN [ok |-> TRUE, name |-> Slice(s, j, k), end |-> e + 2]
    ELSE NoMatch

\* the identifier at position j
SubstIdent(s, j) ==
    IF j < Len(s) /\ IsIdentStart(s[j + 1])
    THEN SubstTail(s, j, IdentEnd(s, j), SkipSpace(s, IdentEnd(s, j)))
    ELSE NoMatch

\* SUBST_RE.match(s, i): group(1) and the end of the match
SubstMatch(s, i) ==
    IF Slice(s, i, i + 2) = <<"{", "{">>
    THEN SubstIdent(s, SkipSpace(s, i + 2))
    ELSE NoMatch

\* What re.sub does with the value the replacement function returned: a str
\* is joined in, None is left out, and anything else makes the final join
\* raise TypeError.
SubstJoin(acc, v) ==
    CASE v.t = "str" -> [acc EXCEPT !.out = @ \o v.s]
      [] v.t = "none" -> acc
      [] OTHER -> [acc EXCEPT !.exc = "TypeError"]

\* SUBST_RE.sub(lambda x: kwargs[x.group(1)], text) from position i on; the
\* lookup of a name that is not bound raises KeyError at once.
RECURSIVE SubstScan(_, _, _, _)
RECURSIVE SubstAt(_, _, _, _, _)
SubstAt(s, kw, i, acc, m) ==
    IF ~m.ok
    THEN SubstScan(s, kw, i + 1, [acc EXCEPT !.out = Append(@, s[i + 1])])
    ELSE IF ~HasKey(kw, m.name)
    THEN [acc EXCEPT !.exc = "KeyError"]
    ELSE SubstScan(s, kw, m.end, SubstJoin(acc, DictGet(kw, m.name)))

SubstScan(s, kw, i, acc) ==
    IF i >= Len(s) THEN acc ELSE SubstAt(s, kw, i, acc, SubstMatch(s, i))

Subst(text, kw) == SubstScan(text, kw, 0, [exc |-> "none", out |-> <<>>])

\* str.split(): the words between runs of white space
RECURSIVE SplitWords(_, _, _)
SplitWords(s, word, acc) ==
    IF s = <<>>
    THEN IF word = <<>> THEN acc ELSE Append(acc, word)
    ELSE IF IsSpace(Head(s))
    THEN SplitWords(Tail(s), <<>>,
                    IF word = <<>> THEN acc ELSE Append(acc, word))
    ELSE SplitWords(Tail(s), Append(word, Head(s)), acc)

Split(s) == SplitWords(s, <<>>, <<>>)

W_replace == <<"#", "r", "e", "p", "l", "a", "c", "e">>

\* "for line in kwargs[var]": a str gives its characters, a list its items
\* and a LineList its texts; None and an int cannot be iterated.
Iterable(v) == v.t \in {"str", "list", "llist"}

IterLines(v) ==
    IF v.t = "str" THEN [i \in 1..Len(v.s) |-> <<v.s[i]>>]
    ELSE [i \in 1..Len(v.es) |-> v.es[i].text]

\* the result of Section.render while it is built: the exception raised, if
\* any, and the entries appended so far
Rendering(es) == [exc |-> "none", es |-> es]

Failed(exc, es) == [exc |-> exc, es |-> es]

\* result.append(line) for each line of the value: lines 203-204
Splice(es, v) == LLExtend(es, IterLines(v), NoCoord)

\* lines 201-204, with the words of the line
ReplaceLine(es, words, kw) ==
    IF Len(words) < 2 THEN Failed("IndexError", es)
    ELSE IF ~HasKey(kw, words[2]) THEN Failed("KeyError", es)
    ELSE IF ~Iterable(DictGet(kw, words[2])) THEN Failed("TypeError", es)
    ELSE Rendering(Splice(es, DictGet(kw, words[2])))

\* lines 206-208, with the result of the substitution
SubstLine(es, coord, r) ==
    IF r.exc # "none" THEN Failed(r.exc, es)
    ELSE Rendering(LLAppend(es, r.out, coord))

\* one turn of "for coord, text in self.contents.iter_coord()"
SectionLine(es, e, kw) ==
    IF StartsWith(e.text, W_replace)
    THEN ReplaceLine(es, Split(e.text), kw)
    ELSE SubstLine(es, e.coord, Subst(e.text, kw))

RECURSIVE SectionLoop(_, _, _, _)
SectionLoop(contents, kw, i, res) ==
    IF i > Len(contents) \/ res.exc # "none" THEN res
    ELSE SectionLoop(contents, kw, i + 1, SectionLine(res.es, contents[i], kw))

Keys(d) == {d[i].key : i \in 1..Len(d)}

\* "if self.requires - set(kwargs)": the section is not rendered
Skipped_Never(requires, kw) == FALSE

Skipped(requires, kw) == requires \ Keys(kw) # {}

Section(name, requires, contents) ==
    [name |-> name, requires |-> requires, contents |-> contents]

\* Section.render: exc is the exception that left it, has is FALSE for the
\* result None
SectionDone(res) == [exc |-> res.exc, has |-> res.exc = "none", es |-> res.es]

SectionRender(sec, kw) ==
    IF Skipped(sec.requires, kw)
    THEN [exc |-> "none", has |-> FALSE, es |-> <<>>]
    ELSE SectionDone(SectionLoop(sec.contents, kw, 1, Rendering(<<>>)))

-----------------------------------------------------------------------------
(* Templates and the render context (template.py) *)

InsertSection(section) == [kind |-> "insert", section |-> section, code |-> <<>>]

Literal(code) == [kind |-> "literal", section |-> <<>>, code |-> code]

Define(name, contents) == [name |-> name, contents |-> contents]

Template(name, structure, defines, sections) ==
    [name |-> name, structure |-> structure, defines |-> defines,
     sections |-> sections]

\* TemplateParser._values()
TemplateValues == [structure |-> <<>>, defines |-> <<>>, sections |-> <<>>]

\* a directive object of the template grammar waiting for its closing line
TemplateDeferred(kind, name, requires, sc) ==
    [kind |-> kind, name |-> name, requires |-> requires, start_coord |-> sc]

\* insert
InsertDirective(vals, sc, toks) ==
    IF Len(toks) # 1 \/ toks[1].type_ # TOK_WORD \/ toks[1].value = <<>>
    THEN HRaise("invalid_insert", sc, vals)
    ELSE HDone([vals EXCEPT !.structure =
                   Append(@, InsertSection(toks[1].value))])

\* LiteralDirective.__init__ and __call__
LiteralInit(vals, sc, toks) ==
    IF Len(toks) # 1 \/ toks[1] # CharTok("{")
    THEN HRaise("invalid_literal", sc, vals)
    ELSE HResult(TRUE, "", NoCoord, vals,
                 TemplateDeferred("literal", <<>>, {}, sc))

LiteralCall(d, vals, ec, b, toks) ==
    IF toks.none THEN HRaise("unclosed_literal", d.start_coord, vals)
    ELSE IF Len(toks.toks) # 0 THEN HRaise("invalid_end_literal", ec, vals)
    ELSE HDone([vals EXCEPT !.structure = Append(@, Literal(b))])

\* DefineDirective.__init__ and __call__
DefineInit(vals, sc, toks) ==
    IF Len(toks) # 2 \/ toks[1].type_ # TOK_WORD \/ toks[1].value = <<>>
       \/ toks[2] # CharTok("{")
    THEN HRaise("invalid_define", sc, vals)
    ELSE HResult(TRUE, "", NoCoord, vals,
                 TemplateDeferred("define", toks[1].value, {}, sc))

DefineCall_StoresFirst(d, vals, ec, b, toks) ==
    IF toks.none
    THEN HRaise("unclosed_define", d.start_coord,
                [vals EXCEPT !.defines = DictSet(@, d.name, Define(d.name, b))])
    ELSE IF Len(toks.toks) # 0
    THEN HRaise("invalid_end_define", ec,
                [vals EXCEPT !.defines = DictSet(@, d.name, Define(d.name, b))])
    ELSE HDone([vals EXCEPT !.defines = DictSet(@, d.name, Define(d.name, b))])

DefineCall(d, vals, ec, b, toks) ==
    IF toks.none THEN HRaise("unclosed_define", d.start_coord, vals)
    ELSE IF Len(toks.toks) # 0 THEN HRaise("invalid_end_define", ec, vals)
    ELSE HDone([vals EXCEPT !.defines = DictSet(@, d.name, Define(d.name, b))])

\* the requirements of a section: one word between the commas
Requirements(parts) ==
    IF \E i \in 1..Len(parts) :
           \/ Len(parts[i].stack) # 1
           \/ parts[i].stack[1].type_ # TOK_WORD
           \/ parts[i].stack[1].value = <<>>
    THEN [ok |-> FALSE, requires |-> {}]
    ELSE [ok |-> TRUE,
          requires |-> {parts[i].stack[1].value : i \in 1..Len(parts)}]

\* SectionDirective.__init__ and __call__
SectionInit(vals, sc, toks) ==
    IF Len(toks) < 2 \/ toks[1].type_ # TOK_WORD \/ toks[1].value = <<>>
       \/ toks[Len(toks)] # CharTok("{")
    THEN HRaise("invalid_section", sc, vals)
    ELSE IF Len(toks) = 2
    THEN HResult(TRUE, "", NoCoord, vals,
                 TemplateDeferred("section", toks[1].value, {}, sc))
    ELSE IF Len(toks) < 4 \/ toks[2] # CharTok("(")
            \/ toks[Len(toks) - 1] # CharTok(")")
            \/ ~Requirements(SplitToks(Slice(toks, 2, Len(toks) - 2),
                                       {CharTok(",")})).ok
    THEN HRaise("invalid_section", sc, vals)
    ELSE HResult(TRUE, "", NoCoord, vals,
             TemplateDeferred(
                 "section", toks[1].value,
                 Requirements(SplitToks(Slice(toks, 2, Len(toks) - 2),
                                        {CharTok(",")})).requires,
                 sc))

SectionClose(d, vals, ec, b, toks) ==
    IF toks.none THEN HRaise("unclosed_section", d.start_coord, vals)
    ELSE IF Len(toks.toks) # 0 THEN HRaise("invalid_end_section", ec, vals)
    ELSE HDone([vals EXCEPT !.sections =
                   DictSet(@, d.name, Section(d.name, d.requires, b))])

\* Directive.__call__ of the directive of the template grammar under name
TemplateDirectiveCall(name, vals, sc, toks) ==
    IF name = "insert" THEN InsertDirective(vals, sc, toks)
    ELSE IF name = "literal" THEN LiteralInit(vals, sc, toks)
    ELSE IF name = "define" THEN DefineInit(vals, sc, toks)
    ELSE SectionInit(vals, sc, toks)

\* calling the directive object d of the template grammar
TemplateDeferredCall(d, vals, ec, b, toks) ==
    IF d.kind = "literal" THEN LiteralCall(d, vals, ec, b, toks)
    ELSE IF d.kind = "define" THEN DefineCall(d, vals, ec, b, toks)
    ELSE SectionClose(d, vals, ec, b, toks)

\* RenderContext(): a new output list, known by its identity, and no section
RenderContext(id) == [output |-> [id |-> id, es |-> <<>>], sections |-> <<>>]

\* '\n'.join(lines)
RECURSIVE JoinLines(_)
JoinLines(ls) ==
    IF ls = <<>> THEN <<>>
    ELSE IF Len(ls) = 1 THEN ls[1]
    ELSE ls[1] \o <<"\n">> \o JoinLines(Tail(ls))

\* str(v) of a list of str: the items in quotes, as repr writes them
RECURSIVE PyReprItems(_, _)
PyReprItems(es, i) ==
    IF i > Len(es) THEN <<>>
    ELSE (IF i > 1 THEN <<",", " ">> ELSE <<>>)
         \o <<"'">> \o es[i].text \o <<"'">> \o PyReprItems(es, i + 1)

\* what Jinja writes for the value of an expression: str(value)
JinjaStr(v) ==
    CASE v.t = "str" -> v.s
      [] v.t = "none" -> <<"N", "o", "n", "e">>
      [] v.t = "list" -> <<"[">> \o PyReprItems(v.es, 1) \o <<"]">>

\* the expression "{{ name }}" of a Jinja template: the value of the name in
\* the arguments, and nothing for a name that is not there (Undefined)
JinjaName(kw, name) ==
    IF HasKey(kw, name) THEN JinjaStr(DictGet(kw, name)) ELSE <<>>

RECURSIVE JinjaScan(_, _, _, _)
RECURSIVE JinjaAt(_, _, _, _, _)
JinjaAt(s, kw, i, acc, m) ==
    IF ~m.ok THEN JinjaScan(s, kw, i + 1, Append(acc, s[i + 1]))
    ELSE JinjaScan(s, kw, m.end, acc \o JinjaName(kw, m.name))

JinjaScan(s, kw, i, acc) ==
    IF i >= Len(s) THEN acc ELSE JinjaAt(s, kw, i, acc, SubstMatch(s, i))

\* jinja2.Template(source) leaves out one newline at the end of the source
JinjaSource(text) ==
    IF EndsWith(text, <<"\n">>) THEN SubSeq(text, 1, Len(text) - 1) ELSE text

\* Define.render(kwargs) for a body of plain text and references to names
JinjaRender(text, kw) == JinjaScan(JinjaSource(text), kw, 0, <<>>)

\* str.split('\n')
RECURSIVE SplitLines(_, _, _)
SplitLines(s, line, acc) ==
    IF s = <<>> THEN Append(acc, line)
    ELSE IF Head(s) = "\n" THEN SplitLines(Tail(s), <<>>, Append(acc, line))
    ELSE SplitLines(Tail(s), Append(line, Head(s)), acc)

\* lines 617-619: the last line goes when it is empty
DropBlankTail(ls) ==
    IF ls[Len(ls)] = <<>> THEN SubSeq(ls, 1, Len(ls) - 1) ELSE ls

\* lines 614-619: a result of several lines becomes a list of lines
DefineValue(result) ==
    IF \E i \in 1..Len(result) : result[i] = "\n"
    THEN ListVal(DropBlankTail(SplitLines(result, <<>>, <<>>)))
    ELSE StrVal(result)

EntryTexts(es) == [i \in 1..Len(es) |-> es[i].text]

\* lines 611-622 with every define rendered from the arguments of the call
RECURSIVE DefinesApart(_, _, _, _)
DefinesApart(defines, i, kw0, kw) ==
    IF i > Len(defines) THEN kw
    ELSE DefinesApart(
             defines, i + 1, kw0,
             DictSet(kw, defines[i].key,
                     DefineValue(JinjaRender(
                         JoinLines(EntryTexts(defines[i].val.contents)),
                         kw0))))

\* lines 611-622
RECURSIVE RealizeDefines(_, _, _)
RealizeDefines_Blind(defines, i, kw) == DefinesApart(defines, i, kw, kw)

RealizeDefines(defines, i, kw) ==
    IF i > Len(defines) THEN kw
    ELSE RealizeDefines(
             defines, i + 1,
             DictSet(kw, defines[i].key,
                     DefineValue(JinjaRender(
                         JoinLines(EntryTexts(defines[i].val.contents)),
                         kw))))

\* ctxt.sections[name], which makes the section when it is not there
SectionOf(sections, name) ==
    IF HasKey(sections, name) THEN DictGet(sections, name) ELSE <<>>

\* lines 627-628: "if result: ctxt.sections[name] += result"
AccumulateSection_Replace(ctxt, name, r) ==
    IF r.has /\ r.es # <<>>
    THEN [ctxt EXCEPT !.sections = DictSet(@, name, r.es)]
    ELSE ctxt

AccumulateSection(ctxt, name, r) ==
    IF r.has /\ r.es # <<>>
    THEN [ctxt EXCEPT !.sections =
              DictSet(@, name, SectionOf(@, name) \o r.es)]
    ELSE ctxt

\* one turn of lines 625-628; an exception of Section.render leaves render
SectionTurn(st, name, r) ==
    IF r.exc # "none" THEN [st EXCEPT !.exc = r.exc]
    ELSE [st EXCEPT !.ctxt = AccumulateSection(@, name, r)]

RECURSIVE RenderSections(_, _, _, _)
RenderSections(sections, i, kw, st) ==
    IF i > Len(sections) \/ st.exc # "none" THEN st
    ELSE RenderSections(
             sections, i + 1, kw,
             SectionTurn(st, sections[i].key,
                         SectionRender(sections[i].val, kw)))

\* InsertSection.render and Literal.render: the entries of the list returned
ElemRender(elem, ctxt) ==
    IF elem.kind = "insert" THEN SectionOf(ctxt.sections, elem.section)
    ELSE elem.code

\* what the lookup of InsertSection.render leaves in the context
ElemTouch(elem, ctxt) ==
    IF elem.kind = "insert" /\ ~HasKey(ctxt.sections, elem.section)
    THEN [ctxt EXCEPT !.sections = DictSet(@, elem.section, <<>>)]
    ELSE ctxt

\* one turn of lines 631-632: "ctxt.output += elem.render(ctxt)"
Emit(ctxt, elem) ==
    [ElemTouch(elem, ctxt) EXCEPT !.output.es = @ \o ElemRender(elem, ctxt)]

RECURSIVE RenderStructure(_, _, _)
RenderStructure(structure, i, ctxt) ==
    IF i > Len(structure) THEN ctxt
    ELSE RenderStructure(structure, i + 1, Emit(ctxt, structure[i]))

NoRef == 0

\* line 635: the list returned is the output list of the context itself
Returned(ctxt) == [exc |-> "none", ctxt |-> ctxt, ret |-> ctxt.output.id]

\* lines 630-635, once the sections are rendered
RenderOutput(tmpl, st) ==
    IF st.exc # "none" THEN [exc |-> st.exc, ctxt |-> st.ctxt, ret |-> NoRef]
    ELSE Returned(RenderStructure(tmpl.structure, 1, st.ctxt))

\* Template.render(ctxt, **kwargs)
TemplateRender_StructureFirst(tmpl, ctxt, kw) ==
    RenderOutput(Template(tmpl.name, <<>>, tmpl.defines, tmpl.sections),
                 RenderSections(tmpl.sections, 1,
                                RealizeDefines(tmpl.defines, 1, kw),
                                [exc |-> "none",
                                 ctxt |-> RenderStructure(tmpl.structure, 1,
                                                          ctxt)]))

TemplateRender(tmpl, ctxt, kw) ==
    RenderOutput(tmpl,
                 RenderSections(tmpl.sections, 1,
                                RealizeDefines(tmpl.defines, 1, kw),
                                [exc |-> "none", ctxt |-> ctxt]))

\* Template.get_tmpl(name) with the cache as it is, the outcome of reading
\* and parsing the resource ("ok", "unreadable" when resource_stream raises,
\* "unparsable" when TemplateParser.parse raises) and the identity the next
\* Template object gets.  read and parsed tell what the call went through.
TmplCached(cache, name) ==
    [cache |-> cache, read |-> FALSE, parsed |-> FALSE, exc |-> "none",
     ret |-> DictGet(cache, name), made |-> FALSE]

TmplLoad(cache, name, outcome, id) ==
    CASE outcome = "unreadable" ->
             [cache |-> cache, read |-> FALSE, parsed |-> FALSE,
              exc |-> "IOError", ret |-> NoRef, made |-> FALSE]
      [] outcome = "unparsable" ->
             [cache |-> cache, read |-> TRUE, parsed |-> FALSE,
              exc |-> "ParseException", ret |-> NoRef, made |-> FALSE]
      [] OTHER ->
             [cache |-> DictSet(cache, name, id), read |-> TRUE,
              parsed |-> TRUE, exc |-> "none", ret |-> id, made |-> TRUE]

GetTmpl_Reload(cache, name, outcome, id) == TmplLoad(cache, name, outcome, id)

GetTmpl(cache, name, outcome, id) ==
    IF HasKey(cache, name) THEN TmplCached(cache, name)
    ELSE TmplLoad(cache, name, outcome, id)

-----------------------------------------------------------------------------
(* Rendering a hypocrite input file (hypofile.py) *)

N_name == <<"n", "a", "m", "e">>

N_code == <<"c", "o", "d", "e">>

N_fixtures == <<"f", "i", "x", "t", "u", "r", "e", "s">>

N_return_type == <<"r", "e", "t", "u", "r", "n", "_", "t", "y", "p", "e">>

N_args == <<"a", "r", "g", "s">>

N_source == <<"s", "o", "u", "r", "c", "e">>

N_test_fname == <<"t", "e", "s", "t", "_", "f", "n", "a", "m", "e">>

N_tests == <<"t", "e", "s", "t", "s">>

N_mocks == <<"m", "o", "c", "k", "s">>

N_cleanup == <<"c", "l", "e", "a", "n", "u", "p">>

KwArg(k, v) == [key |-> k, val |-> v]

TmplCoord(n) == Coordinate("tmpl.c", n)

\* The templates test.c, mock.c, mock-void.c, fixture.c and master.c of the
\* package: the children fill one section each, the master inserts them.
TestTemplate ==
    Template("test.c", <<>>, <<>>,
             <<KwArg(N_tests,
                     Section(N_tests, {},
                             <<Entry(TmplCoord(1), <<"{", "{", "n", "a", "m", "e", "}", "}">>),
                               Entry(TmplCoord(2), W_replace \o <<" ">> \o N_code)>>))>>)

MockTemplate ==
    Template("mock.c", <<>>, <<>>,
             <<KwArg(N_mocks,
                     Section(N_mocks, {},
                             <<Entry(TmplCoord(1), <<"{", "{", "n", "a", "m", "e", "}", "}", "=">>)>>))>>)

MockVoidTemplate ==
    Template("mock-void.c", <<>>, <<>>,
             <<KwArg(N_mocks,
                     Section(N_mocks, {},
                             <<Entry(TmplCoord(1), <<"{", "{", "n", "a", "m", "e", "}", "}">>)>>))>>)

FixtureTemplate ==
    Template("fixture.c", <<>>, <<>>,
             <<KwArg(N_fixtures,
                     Section(N_fixtures, {},
                             <<Entry(TmplCoord(1), <<"{", "{", "n", "a", "m", "e", "}", "}">>)>>)),
               KwArg(N_cleanup,
                     Section(N_cleanup, {W_teardown},
                             <<Entry(TmplCoord(3), W_replace \o <<" ">> \o W_teardown)>>))>>)

MasterTemplate ==
    Template("master.c",
             <<Literal(<<Entry(TmplCoord(1), <<"/", "/">>)>>),
               InsertSection(W_preamble), InsertSection(N_mocks),
               InsertSection(N_fixtures), InsertSection(N_cleanup),
               InsertSection(N_tests)>>,
             <<>>, <<>>)

\* the characters of a text in code point order
AsciiOrder ==
    <<"0", "1", "2", "3", "4", "5", "6", "7", "8", "9",
      "A", "B", "C", "D", "E", "F", "G", "H", "I", "J", "K", "L", "M",
      "N", "O", "P", "Q", "R", "S", "T", "U", "V", "W", "X", "Y", "Z", "_",
      "a", "b", "c", "d", "e", "f", "g", "h", "i", "j", "k", "l", "m",
      "n", "o", "p", "q", "r", "s", "t", "u", "v", "w", "x", "y", "z">>

Ord(c) == CHOOSE i \in 1..Len(AsciiOrder) : AsciiOrder[i] = c

\* a < b for two str
RECURSIVE StrLess(_, _)
StrLess(a, b) ==
    IF b = <<>> THEN FALSE
    ELSE IF a = <<>> THEN TRUE
    ELSE IF Head(a) = Head(b) THEN StrLess(Tail(a), Tail(b))
    ELSE Ord(Head(a)) < Ord(Head(b))

\* sorted(names)
RECURSIVE Sorted(_)
Sorted(S) ==
    IF S = {} THEN <<>>
    ELSE LET m == CHOOSE x \in S : \A y \in S \ {x} : StrLess(x, y)
         IN  <<m>> \o Sorted(S \ {m})

DictKeys(d) == [i \in 1..Len(d) |-> d[i].key]

\* One object to render: a preamble by its position, a test, a mock or a
\* fixture by its name, or the master template.
Job(kind, name, idx) == [kind |-> kind, name |-> name, idx |-> idx]

NamedJobs(kind, names) ==
    [i \in 1..Len(names) |-> Job(kind, names[i], 0)]

\* line 845: the mocks in the order of their names
MockJobs_Declared(hf) == NamedJobs("mock", DictKeys(hf.mocks))

MockJobs(hf) == NamedJobs("mock", Sorted(Keys(hf.mocks)))

\* lines 841-851: the objects in the order render goes through them
Jobs(hf) ==
    [i \in 1..Len(hf.preamble) |-> Job("preamble", <<>>, i)]
    \o NamedJobs("test", DictKeys(hf.tests))
    \o MockJobs(hf)
    \o NamedJobs("fixture", Sorted(Keys(hf.fixtures)))
    \o <<Job("master", <<>>, 0)>>

\* the state of HypoFile.render: the exception that left it, the context,
\* the objects rendered so far and the list the last template returned
Visited(st, job) == [st EXCEPT !.order = Append(@, job)]

AfterTemplate(st, job, r) ==
    [exc |-> r.exc, ctxt |-> r.ctxt, order |-> Append(st.order, job),
     ret |-> r.ret]

\* Preamble.render
PreambleRender(st, job, p) ==
    [Visited(st, job) EXCEPT !.ctxt.sections =
         DictSet(@, W_preamble, SectionOf(@, W_preamble) \o p.code.es)]

\* the pairs (fixture, inject) of line 173, kept as the name of the fixture
\* and a mark for inject
InjectionText(f) == f.fixture \o (IF f.inject THEN <<>> ELSE <<"!">>)

Injections(t) ==
    ListVal([i \in 1..Len(t.fixtures) |-> InjectionText(t.fixtures[i])])

\* HypocriteTest.render: hfile.fixtures[fix] raises KeyError for a name
\* that is no fixture
TestRender(st, job, hf, t) ==
    IF \E i \in 1..Len(t.fixtures) : ~HasKey(hf.fixtures, t.fixtures[i].fixture)
    THEN [Visited(st, job) EXCEPT !.exc = "KeyError", !.ret = NoRef]
    ELSE AfterTemplate(st, job,
             TemplateRender(TestTemplate, st.ctxt,
                            <<KwArg(N_name, StrVal(t.name)),
                              KwArg(N_code, LineListVal(t.code.es)),
                              KwArg(N_fixtures, Injections(t))>>))

MockArgList(m) ==
    ListVal([i \in 1..Len(m.args) |-> m.args[i].type_ \o <<" ">> \o m.args[i].name])

\* HypocriteMock.render
MockRender(st, job, m) ==
    AfterTemplate(st, job,
        TemplateRender(IF m.return_type = W_void THEN MockVoidTemplate
                       ELSE MockTemplate,
                       st.ctxt,
                       <<KwArg(N_name, StrVal(m.name)),
                         KwArg(N_return_type, StrVal(m.return_type)),
                         KwArg(N_args, MockArgList(m))>>))

OptVal(t) == IF t.has THEN StrVal(t.v) ELSE NoneVal

TeardownArg_WhenGiven(f) ==
    IF f.teardown.has
    THEN <<KwArg(W_teardown, LineListVal(f.teardown.es))>>
    ELSE <<>>

\* lines 283-284: a teardown without lines is left out
TeardownArg(f) ==
    IF f.teardown.has /\ f.teardown.es # <<>>
    THEN <<KwArg(W_teardown, LineListVal(f.teardown.es))>>
    ELSE <<>>

\* lines 278-284: the arguments the template is rendered with
FixtureArgs(f) ==
    <<KwArg(N_name, StrVal(f.name)),
      KwArg(N_return_type, OptVal(f.return_type)),
      KwArg(N_code, LineListVal(f.code.es))>>
    \o TeardownArg(f)

\* Fixture.render
FixtureRender(st, job, f) ==
    AfterTemplate(st, job,
        TemplateRender(FixtureTemplate, st.ctxt, FixtureArgs(f)))

\* os.path.basename of a path given as text
RECURSIVE PathBasename(_)
PathBasename(p) ==
    IF Find(p, <<"/">>, 0) < 0 THEN p
    ELSE PathBasename(Slice(p, Find(p, <<"/">>, 0) + 1, Len(p)))

\* lines 851-859
MasterRender(st, job, hf, test_fname) ==
    AfterTemplate(st, job,
        TemplateRender(MasterTemplate, st.ctxt,
                       <<KwArg(N_source, StrVal(PathBasename(hf.path))),
                         KwArg(W_target, OptVal(hf.target)),
                         KwArg(N_test_fname, StrVal(test_fname))>>))

RenderJob(st, job, hf, test_fname) ==
    CASE job.kind = "preamble" -> PreambleRender(st, job, hf.preamble[job.idx])
      [] job.kind = "test" -> TestRender(st, job, hf, DictGet(hf.tests, job.name))
      [] job.kind = "mock" -> MockRender(st, job, DictGet(hf.mocks, job.name))
      [] job.kind = "fixture" ->
             FixtureRender(st, job, DictGet(hf.fixtures, job.name))
      [] OTHER -> MasterRender(st, job, hf, test_fname)

RECURSIVE RenderJobs(_, _, _, _, _)
RenderJobs(jobs, i, st, hf, test_fname) ==
    IF i > Len(jobs) \/ st.exc # "none" THEN st
    ELSE RenderJobs(jobs, i + 1, RenderJob(st, jobs[i], hf, test_fname), hf,
                    test_fname)

\* HypoFile.render(test_fname) with the context RenderContext() makes
HypoFileRender(hf, test_fname, id) ==
    RenderJobs(Jobs(hf), 1,
               [exc |-> "none", ctxt |-> RenderContext(id), order |-> <<>>,
                ret |-> NoRef],
               hf, test_fname)

-----------------------------------------------------------------------------
(* A parse of an input stream *)

InPath == "in.hypo"

\* the texts an input line is drawn from, without the line terminator
L_target == <<"%", "t", "a", "r", "g", "e", "t", " ", "\"", "x", "\"">>

L_fixture == <<"%", "f", "i", "x", "t", "u", "r", "e", " ", "f", "/", "*", "*", "/", "g", " ", "{">>

L_close == <<"%", "}">>

L_teardown == <<" ", "%", "}", " ", "/", "*", " ", "a", " ", "*", "/", "t", "e", "a", "r", "d", "o", "w", "n", "/", "*", " ", "b", " ", "*", "/", "{", " ", "/", "/", " ", "t">>

L_blank == <<>>

L_code == <<" ", "x", " ", "%", "}", " ", "/", "/", " ", "c", " ", "\\">>

L_open == <<"/", "*", " ", "a">>

L_shut == <<"b", " ", "*", "/">>

L_diropen == <<"%", "p", "r", "e", "a", "m", "b", "l", "e", " ", "/", "*">>

L_dirshut == <<"*", "/", " ", "{", " ", "/", "*", " ", "c", " ", "*", "/">>

L_cont == <<"%", "t", "a", "r", "g", "e", "t", " ", "\\">>

L_str == <<"\"", "x", "\"">>

L_bogus == <<"%", "b", "o", "g", "u", "s">>

L_percent == <<"%", " ", "/", "/", " ", "n">>

L_tdown == <<"%", "t", "e", "a", "r", "d", "o", "w", "n", " ", "{">>

L_closing == <<"%", "}", " ", "/", "*">>

InputTexts ==
    {L_target, L_fixture, L_close, L_teardown, L_blank, L_code, L_open, L_shut,
     L_diropen, L_dirshut, L_cont, L_str, L_bogus, L_percent, L_tdown,
     L_closing}

\* the texts a last line without newline is drawn from
LastTexts == {L_code, L_close}

PS ==
    [deferred |-> deferred, buf |-> buf, comment_pfx |-> comment_pfx,
     continued |-> continued, start_coord |-> start_coord, lines |-> lines,
     values |-> values]

NotRaised == [exc |-> "none", what |-> "", loc |-> NoCoord]

InitParse ==
    /\ pc = "reading"
    /\ eof = FALSE
    /\ deferred = NewParser.deferred
    /\ buf = NewParser.buf
    /\ comment_pfx = NewParser.comment_pfx
    /\ continued = NewParser.continued
    /\ start_coord = NewParser.start_coord
    /\ lines = NewParser.lines
    /\ values = NewParser.values
    /\ raised = NotRaised
    /\ fed = <<>>
    /\ calls = <<>>

\* lines 511-518: r is what _parse_line did with the line at coord
StepTo(r, coord, line) ==
    /\ deferred' = r.ps.deferred
    /\ buf' = r.ps.buf
    /\ comment_pfx' = r.ps.comment_pfx
    /\ continued' = r.ps.continued
    /\ start_coord' = r.ps.start_coord
    /\ lines' = r.ps.lines
    /\ values' = r.ps.values
    /\ fed' = Append(fed,
                 [raw |-> line, coord |-> coord, mode |-> r.mode,
                  exc |-> r.exc, completed |-> r.completed,
                  text |-> r.text, toks |-> r.toks,
                  dir_coord |-> r.dir_coord,
                  pending |-> comment_pfx.has \/ continued.has,
                  comment |-> comment_pfx.has,
                  inbody |-> deferred.kind # "none",
                  call |-> r.call])
    /\ calls' = calls \o r.call
    /\ IF LoopGoesOn(r, r.ps)
       THEN pc' = "reading" /\ raised' = raised
       ELSE /\ pc' = "raised"
            /\ raised' = [exc |-> r.exc, what |-> r.what, loc |-> r.loc]

LineCoord_FromZero(path, lno) == Coordinate(path, lno)

\* lines 511-514: the coordinate of the line enumerate numbers lno
LineCoord(path, lno) == Coordinate(path, lno + 1)

\* one turn of the loop of parse on the next line of the stream
Step(line) ==
    StepTo(ParseLine(PS, LineCoord(InPath, Len(fed)), line),
           LineCoord(InPath, Len(fed)), line)

\* the stream yields a line that ends with a newline
FeedLine ==
    /\ pc = "reading" /\ ~eof /\ Len(fed) < MaxLines
    /\ \E t \in InputTexts : Step(t \o <<"\n">>)
    /\ UNCHANGED <<eof, notParse>>

\* the stream yields its last line, which has no newline
FeedLastLine ==
    /\ pc = "reading" /\ ~eof /\ Len(fed) < MaxLines
    /\ \E t \in LastTexts : Step(t)
    /\ eof' = TRUE
    /\ UNCHANGED notParse

\* lines 520-544: e is how parse ends
Ended(e) ==
    /\ calls' = calls \o e.call
    /\ IF e.exc = "none"
       THEN pc' = "returned" /\ raised' = raised
       ELSE /\ pc' = "raised"
            /\ raised' = [exc |-> e.exc, what |-> e.what, loc |-> e.loc]

\* the stream is exhausted
EndOfStream ==
    /\ pc = "reading"
    /\ Ended(ParseEnd(PS, InPath))
    /\ UNCHANGED <<eof, deferred, buf, comment_pfx, continued, start_coord,
                   lines, values, fed, notParse>>

\* the stream is exhausted in a parser whose deferred callable is the
\* program's, or one of a subclass that returns when it is called with no
\* tokens
EndOfStreamAny ==
    /\ pc = "reading"
    /\ \E h \in {EndCall(PS, InPath), HDone(values)} :
           Ended(ParseEndOn(PS, InPath, EndPending(PS), h))
    /\ UNCHANGED <<eof, deferred, buf, comment_pfx, continued, start_coord,
                   lines, values, fed, notParse>>

-----------------------------------------------------------------------------
(* A run of the tokenizer over a text, one character at a time *)

\* the characters a text is made of: a letter, the underscore, a digit, a
\* punctuation character, the double quote and a blank
TokChars == {"a", "_", "1", "*", "\"", " "}

InitTok ==
    /\ tk_text = <<>>
    /\ tk_st = TokStart
    /\ tk_pc = "scanning"
    /\ tk_out = <<>>

\* one turn of "for c in text"
TokChar ==
    /\ tk_pc = "scanning"
    /\ Len(tk_text) < MaxText
    /\ \E c \in TokChars :
           /\ tk_text' = Append(tk_text, c)
           /\ tk_st' = TokStep(tk_st, c)
    /\ UNCHANGED <<tk_pc, tk_out, notTok>>

\* the text is exhausted: lines 242-249, as seen by list()
TokFinish ==
    /\ tk_pc = "scanning"
    /\ tk_pc' = IF TokEnd(tk_st).ok THEN "done" ELSE "raised"
    /\ tk_out' = TokEnd(tk_st).toks
    /\ UNCHANGED <<tk_text, tk_st, notTok>>

-----------------------------------------------------------------------------
(* The line list being built and written *)

Texts == {"x", "y"}

SrcPaths == {"in.hypo", "tmpl.c"}

Coords == {Coordinate(p, n) : p \in SrcPaths, n \in 1..MaxLno}

StreamName == <<"base.c">>

OutPaths == {<<>>, <<"build", "out.c">>}

NotWritten ==
    [written |-> FALSE, count |-> 0, fname |-> "", stream |-> <<>>]

InitList ==
    /\ entries = <<>>
    /\ out = NotWritten

\* LineList.append(line, coord)
DoAppend ==
    /\ Len(entries) < MaxEntries
    /\ \E t \in Texts, c \in Coords \cup {NoCoord} :
           entries' = LLAppend(entries, t, c)
    /\ UNCHANGED <<out, notList>>

\* LineList.extend(lines, coord) with two lines
DoExtend ==
    /\ Len(entries) + 2 <= MaxEntries
    /\ \E t1 \in Texts, t2 \in Texts, c \in Coords \cup {NoCoord} :
           entries' = LLExtend(entries, <<t1, t2>>, c)
    /\ UNCHANGED <<out, notList>>

\* LineList.output(stream, path) on a fresh stream
DoOutput ==
    /\ \E path \in OutPaths :
           LET o == Output(entries, StreamName, path)
           IN  out' = [written |-> TRUE, count |-> Len(entries),
                       fname |-> o.fname, stream |-> o.stream]
    /\ UNCHANGED <<entries, notList>>

-----------------------------------------------------------------------------
(* A call of Section.render, one line of the body at a time *)

V_x == <<"x">>

V_y == <<"y">>

T_plain == <<"a", " ", "b">>

T_subst == <<"a", " ", "{", "{", "x", "}", "}", " ", "b">>

T_two == <<"{", "{", " ", "x", " ", "}", "}", "{", "{", "y", "}", "}">>

T_not == <<"{", "{", "1", "x", "}", "}", " ", "{", "x", "}", "}">>

T_repl == <<"#", "r", "e", "p", "l", "a", "c", "e", " ", "x">>

T_bare == <<"#", "r", "e", "p", "l", "a", "c", "e">>

T_indent == <<" ", "#", "r", "e", "p", "l", "a", "c", "e", " ", "x">>

T_glued == <<"#", "r", "e", "p", "l", "a", "c", "e", "x", " ", "y">>

SectionTexts ==
    {T_plain, T_subst, T_two, T_not, T_repl, T_bare, T_indent, T_glued}

\* what x is bound to: a str of one and of two characters, None, an int, a
\* list of lines and a LineList
XValues ==
    {StrVal(<<"v">>), StrVal(<<"p", "q">>), NoneVal, IntVal(1),
     ListVal(<<<<"p">>, <<"q", "r">>>>),
     LineListVal(<<Entry(Coordinate("in.hypo", 1), <<"p">>),
                   Entry(Coordinate("in.hypo", 2), <<"q">>)>>)}

YBound == KwArg(V_y, StrVal(<<"w">>))

KwArgSets ==
    {<<>>, <<YBound>>}
    \cup {<<KwArg(V_x, v)>> : v \in XValues}
    \cup {<<KwArg(V_x, v), YBound>> : v \in XValues}

RequireSets == {{}, {V_x}}

InitSection ==
    /\ sc_pc = "idle"
    /\ sc_kw = <<>>
    /\ sc_req = {}
    /\ sc_body = <<>>
    /\ sc_res = [exc |-> "none", has |-> FALSE, es |-> <<>>]

\* lines 193-197
SectionCall ==
    /\ sc_pc = "idle"
    /\ \E kw \in KwArgSets, req \in RequireSets :
           /\ sc_kw' = kw
           /\ sc_req' = req
           /\ sc_pc' = IF Skipped(req, kw) THEN "returned" ELSE "loop"
    /\ UNCHANGED <<sc_body, sc_res, notSection>>

\* one turn of the loop of lines 199-208 over the next line of the body
SectionNext ==
    /\ sc_pc = "loop"
    /\ Len(sc_body) < MaxBody
    /\ \E t \in SectionTexts :
           /\ sc_body' = Append(sc_body, Entry(TmplCoord(Len(sc_body) + 1), t))
           /\ sc_res' = SectionDone(SectionLine(
                            sc_res.es, Entry(TmplCoord(Len(sc_body) + 1), t),
                            sc_kw))
    /\ sc_pc' = IF sc_res'.exc = "none" THEN "loop" ELSE "raised"
    /\ UNCHANGED <<sc_kw, sc_req, notSection>>

\* line 210
SectionReturn ==
    /\ sc_pc = "loop"
    /\ sc_pc' = "returned"
    /\ sc_res' = SectionDone(Rendering(sc_res.es))
    /\ UNCHANGED <<sc_kw, sc_req, sc_body, notSection>>

-----------------------------------------------------------------------------
(* Calls of Template.render that share one context *)

S_body == <<"b", "o", "d", "y">>

S_tail == <<"t", "a", "i", "l">>

V_d == <<"d">>

V_e == <<"e">>

\* a template of one section and no structure
ChildTemplate ==
    Template("child.c", <<>>, <<>>,
             <<KwArg(S_body, Section(S_body, {}, <<Entry(TmplCoord(1), T_subst)>>))>>)

\* a template with a define of one line, a define of several lines that
\* refers to it, a guarded section and a structure
DefTemplate ==
    Template("def.c",
             <<InsertSection(S_body), Literal(<<Entry(TmplCoord(9), T_plain)>>)>>,
             <<KwArg(V_e, Define(V_e, <<Entry(TmplCoord(1), <<"{", "{", "x", "}", "}">>)>>)),
               KwArg(V_d, Define(V_d, <<Entry(TmplCoord(2), <<"p">>),
                                        Entry(TmplCoord(3), <<"{", "{", "e", "}", "}">>),
                                        Entry(TmplCoord(4), <<>>)>>))>>,
             <<KwArg(S_tail, Section(S_tail, {V_y},
                                     <<Entry(TmplCoord(5), <<"{", "{", "y", "}", "}", "{", "{", "e", "}", "}">>)>>)),
               KwArg(S_body, Section(S_body, {},
                                     <<Entry(TmplCoord(7), W_replace \o <<" ">> \o V_d)>>))>>)

\* a template of one guarded section whose body refers to a name that is
\* never bound
GuardTemplate ==
    Template("guard.c", <<>>, <<>>,
             <<KwArg(S_tail, Section(S_tail, {V_y},
                                     <<Entry(TmplCoord(1), <<"{", "{", "z", "}", "}">>)>>))>>)

\* a template of structure only
PageTemplate ==
    Template("page.c",
             <<Literal(<<Entry(TmplCoord(1), T_plain)>>), InsertSection(S_body),
               InsertSection(S_tail)>>,
             <<>>, <<>>)

RenderTemplates == {ChildTemplate, DefTemplate, GuardTemplate, PageTemplate}

RenderKwArgs ==
    {<<>>, <<KwArg(V_x, StrVal(<<"v">>))>>, <<KwArg(V_x, NoneVal), YBound>>,
     <<KwArg(V_x, StrVal(<<"p", "q">>)), YBound>>}

InitTemplate ==
    /\ rc_ctxt = RenderContext(1)
    /\ rc_calls = <<>>
    /\ rc_pc = "ready"

RenderCallTo(tmpl, kw, r) ==
    /\ rc_ctxt' = r.ctxt
    /\ rc_calls' = Append(rc_calls, [tmpl |-> tmpl, kw |-> kw, exc |-> r.exc,
                                     ret |-> r.ret])
    /\ rc_pc' = IF r.exc = "none" THEN "ready" ELSE "raised"

\* tmpl.render(ctxt, **kw) on the shared context
RenderCall ==
    /\ rc_pc = "ready"
    /\ Len(rc_calls) < MaxCalls
    /\ \E tmpl \in RenderTemplates, kw \in RenderKwArgs :
           RenderCallTo(tmpl, kw, TemplateRender(tmpl, rc_ctxt, kw))
    /\ UNCHANGED notTemplate

\* the caller drops the context and goes on with RenderContext()
RenderAfresh ==
    /\ rc_calls # <<>>
    /\ rc_ctxt.output.id < MaxContexts
    /\ rc_ctxt' = RenderContext(rc_ctxt.output.id + 1)
    /\ rc_calls' = <<>>
    /\ rc_pc' = "ready"
    /\ UNCHANGED notTemplate

-----------------------------------------------------------------------------
(* A hypocrite input file, declared piece by piece and rendered *)

HypoPath == <<"d", "/", "i", "n", ".", "h">>

HypoFile(path, vals) ==
    [path |-> path, target |-> vals.target, preamble |-> vals.preamble,
     tests |-> vals.tests, mocks |-> vals.mocks, fixtures |-> vals.fixtures]

\* the number of declarations read so far
Decls == Len(hf_decls)

HypoCoord(n) == Coordinate("in.hypo", n)

\* the body of the n-th declaration: one line of code
BodyOf(n) == <<Entry(HypoCoord(2 * n + 2), <<"c">>)>>

W_int == <<"i", "n", "t">>

\* the tests, by name and fixtures; f may or may not be a fixture by then
TestDecls ==
    {[name |-> <<"t">>, fixtures |-> <<>>],
     [name |-> <<"u">>, fixtures |-> <<>>],
     [name |-> <<"s">>, fixtures |-> <<[fixture |-> <<"f">>, inject |-> TRUE]>>]}

\* the mocks, by name and return type
MockDecls ==
    {[name |-> <<"b">>, rt |-> W_void], [name |-> <<"a">>, rt |-> W_int],
     [name |-> <<"B">>, rt |-> W_int]}

\* the fixtures, by name and whether a teardown follows
FixtureDecls ==
    {[name |-> <<"g">>, td |-> FALSE], [name |-> <<"f">>, td |-> TRUE],
     [name |-> <<"f">>, td |-> FALSE]}

InitHypo ==
    /\ hfile = HypoFile(HypoPath, InitialValues)
    /\ hf_pc = "parsed"
    /\ hf_res = [exc |-> "none", ctxt |-> RenderContext(0), order |-> <<>>,
                 ret |-> NoRef]
    /\ hf_decls = <<>>

Declared(r, decls) ==
    /\ r.ok
    /\ hfile' = r.values
    /\ hf_decls' = decls
    /\ UNCHANGED <<hf_pc, hf_res, notHypo>>

\* the declarations and one more, of a kind and under a name
Declaring(kind, name) == Append(hf_decls, [kind |-> kind, name |-> name])

\* what target_directive leaves in the file
DeclTarget ==
    /\ hf_pc = "parsed"
    /\ ~hfile.target.has
    /\ Declared(TargetDirective(hfile, HypoCoord(1),
                                <<Token(TOK_STR, <<"x", ".", "c">>)>>),
                hf_decls)

\* what a closed %preamble leaves in the file
DeclPreamble ==
    /\ hf_pc = "parsed"
    /\ Decls < MaxDecls
    /\ Declared(PreambleCall(
           [NoDeferred EXCEPT !.kind = "preamble",
                              !.start_coord = HypoCoord(2 * Decls + 1)],
           hfile, HypoCoord(2 * Decls + 3), BodyOf(Decls),
           SomeToks(<<>>)),
           Declaring("preamble", <<>>))

\* what a closed %test leaves in the file
DeclTest ==
    /\ hf_pc = "parsed"
    /\ Decls < MaxDecls
    /\ \E t \in TestDecls :
           Declared(TestCall(
               [NoDeferred EXCEPT !.kind = "test", !.name = t.name,
                                  !.fixtures = t.fixtures,
                                  !.start_coord = HypoCoord(2 * Decls + 1)],
               hfile, HypoCoord(2 * Decls + 3), BodyOf(Decls),
               SomeToks(<<>>)),
               Declaring("test", t.name))

\* what %mock leaves in the file
DeclMock ==
    /\ hf_pc = "parsed"
    /\ Decls < MaxDecls
    /\ \E m \in MockDecls :
           Declared(MockDirective(
               hfile, HypoCoord(2 * Decls + 1),
               <<Token(TOK_WORD, m.rt), Token(TOK_WORD, m.name), CharTok("("),
                 Token(TOK_WORD, W_void), CharTok(")")>>),
               Declaring("mock", m.name))

\* what a closed %fixture leaves in the file, without and with a teardown
DeclFixture ==
    /\ hf_pc = "parsed"
    /\ Decls < MaxDecls
    /\ \E f \in FixtureDecls :
           Declared(
               IF f.td
               THEN FixtureTeardown(
                        [NoDeferred EXCEPT !.kind = "teardown", !.name = f.name,
                                           !.start_coord = HypoCoord(2 * Decls + 1),
                                           !.block_start = HypoCoord(2 * Decls + 2),
                                           !.code = List(BodyOf(Decls))],
                        hfile, HypoCoord(2 * Decls + 3),
                        BodyOf(Decls), SomeToks(<<>>))
               ELSE FixtureCall(
                        [NoDeferred EXCEPT !.kind = "fixture", !.name = f.name,
                                           !.start_coord = HypoCoord(2 * Decls + 1),
                                           !.block_start = HypoCoord(2 * Decls + 1)],
                        hfile, HypoCoord(2 * Decls + 3),
                        BodyOf(Decls), SomeToks(<<>>)),
               Declaring("fixture", f.name))

RenderedTo(r) ==
    /\ hf_res' = r
    /\ hf_pc' = IF r.exc = "none" THEN "rendered" ELSE "raised"

\* HypoFile.render(test_fname)
RenderFile ==
    /\ hf_pc = "parsed"
    /\ RenderedTo(HypoFileRender(hfile, <<"o">>, 1))
    /\ UNCHANGED <<hfile, hf_decls, notHypo>>

-----------------------------------------------------------------------------
(* LineList objects built, added and extended *)

LineSets == {<<>>, <<"x">>, <<"x", "y">>}

ListCoords == {NoCoord, Coordinate("in.hypo", 1)}

Operands == {ListOperand(id) : id \in 1..Len(ll_heap)}
            \cup {LinesOperand(ls) : ls \in LineSets}

InitHeap ==
    /\ ll_heap = <<>>
    /\ ll_ops = <<>>

Op(op, recv, other, ls, coord, res) ==
    [op |-> op, recv |-> recv, other |-> other, lines |-> ls,
     coord |-> coord, res |-> res]

\* LineList(lines, coord)
ListNew ==
    /\ Len(ll_ops) < MaxOps
    /\ \E ls \in LineSets, c \in ListCoords :
           /\ ll_heap' = Append(ll_heap, LineList(ls, c))
           /\ ll_ops' = Append(ll_ops, Op("new", 0, LinesOperand(ls), ls, c,
                                          Len(ll_heap) + 1))
    /\ UNCHANGED notHeap

\* a.append(line, coord)
ListAppend ==
    /\ Len(ll_ops) < MaxOps
    /\ \E a \in 1..Len(ll_heap), t \in Texts, c \in ListCoords :
           /\ ll_heap' = [ll_heap EXCEPT ![a] = LLAppend(@, t, c)]
           /\ ll_ops' = Append(ll_ops, Op("append", a, LinesOperand(<<t>>),
                                          <<t>>, c, a))
    /\ UNCHANGED notHeap

\* a.extend(lines, coord)
ListExtend ==
    /\ Len(ll_ops) < MaxOps
    /\ \E a \in 1..Len(ll_heap), ls \in LineSets, c \in ListCoords :
           /\ ll_heap' = [ll_heap EXCEPT ![a] = LLExtend(@, ls, c)]
           /\ ll_ops' = Append(ll_ops, Op("extend", a, LinesOperand(ls), ls, c,
                                          a))
    /\ UNCHANGED notHeap

\* a + other
ListAdd ==
    /\ Len(ll_ops) < MaxOps
    /\ \E a \in 1..Len(ll_heap), other \in Operands :
           /\ ll_heap' = LineListAdd(ll_heap, a, other)
           /\ ll_ops' = Append(ll_ops, Op("add", a, other, other.lines,
                                          NoCoord, Len(ll_heap) + 1))
    /\ UNCHANGED notHeap

\* a += other
ListIadd ==
    /\ Len(ll_ops) < MaxOps
    /\ \E a \in 1..Len(ll_heap), other \in Operands :
           /\ ll_heap' = LineListIadd(ll_heap, a, other)
           /\ ll_ops' = Append(ll_ops, Op("iadd", a, other, other.lines,
                                          NoCoord, a))
    /\ UNCHANGED notHeap

-----------------------------------------------------------------------------
(* The helper functions applied to arguments of their own *)

SubCoords == {Coordinate(p, n) : p \in SrcPaths, n \in 1..(MaxLno + 1)}

W_a == <<"a">>

W_f == <<"f">>

\* the tokens a type is made of, and two that do not belong in a type
TypeToks == {Token(TOK_WORD, W_void), Token(TOK_WORD, W_int), CharTok("*"),
             CharTok("["), Token(TOK_STR, W_a)}

TypeTokSeqs == UNION {[1..n -> TypeToks] : n \in 0..MaxType}

\* the return types and the parameters of the mocks declared
ReturnTypes == {<<Token(TOK_WORD, W_void)>>,
                <<Token(TOK_WORD, W_int), CharTok("*"), CharTok("*")>>}

Params == {<<>>, <<Token(TOK_WORD, W_void)>>,
           <<Token(TOK_WORD, W_int), Token(TOK_WORD, W_a)>>,
           <<Token(TOK_WORD, W_int), CharTok("*"), Token(TOK_WORD, W_a)>>}

ParamLists == UNION {[1..n -> Params] : n \in 0..MaxParams}

\* the parameters with a comma between one and the next
RECURSIVE JoinParams(_)
JoinParams(ps) ==
    IF ps = <<>> THEN <<>>
    ELSE IF Len(ps) = 1 THEN ps[1]
    ELSE ps[1] \o <<CharTok(",")>> \o JoinParams(Tail(ps))

\* the tokens of "%mock <ret> f(<params>)"
MockToks(ret, ps) ==
    ret \o <<Token(TOK_WORD, W_f), CharTok("(")>> \o JoinParams(ps)
        \o <<CharTok(")")>>

InitApply ==
    /\ ap_fn = "none"
    /\ ap_arg = <<>>
    /\ ap_res = <<>>

\* a - b and b - a
SubCall ==
    /\ ap_fn = "none"
    /\ \E a \in SubCoords, b \in SubCoords :
           /\ ap_arg' = [a |-> a, b |-> b]
           /\ ap_res' = [ab |-> CoordSub(a, b), ba |-> CoordSub(b, a)]
    /\ ap_fn' = "sub"
    /\ UNCHANGED notApply

\* _make_type(toks, directive, coord)
MakeTypeCall ==
    /\ ap_fn = "none"
    /\ \E toks \in TypeTokSeqs :
           /\ ap_arg' = [toks |-> toks]
           /\ ap_res' = MakeType(toks)
    /\ ap_fn' = "make_type"
    /\ UNCHANGED notApply

\* mock(values, start_coord, toks) on the value-map of a new parse
MockCall ==
    /\ ap_fn = "none"
    /\ \E ret \in ReturnTypes, ps \in ParamLists :
           /\ ap_arg' = [ret |-> ret, params |-> ps, toks |-> MockToks(ret, ps)]
           /\ ap_res' = MockDirective(InitialValues, Coordinate(InPath, 1),
                                      MockToks(ret, ps))
    /\ ap_fn' = "mock"
    /\ UNCHANGED notApply

\* the tokens after the "}" of a closing line, and none at the end of the
\* file
CloseToks ==
    {NoneToks}
    \cup {SomeToks(t) :
              t \in {<<>>,
                     <<Token(TOK_WORD, W_teardown), CharTok("{")>>,
                     <<Token(TOK_WORD, W_teardown)>>,
                     <<CharTok("{")>>,
                     <<Token(TOK_WORD, W_teardown), CharTok("{"), CharTok("{")>>,
                     <<Token(TOK_STR, W_teardown), CharTok("{")>>,
                     <<Token(TOK_WORD, W_a)>>}}

\* the body between the line before and the closing line at lno
CloseBufs(lno) == {<<>>, <<Entry(Coordinate(InPath, lno - 1), <<"c">>)>>}

\* the directive object of "%fixture int f {" on line 1
FixtureOpened ==
    FixtureInit(InitialValues, Coordinate(InPath, 1),
                <<Token(TOK_WORD, W_int), Token(TOK_WORD, W_f), CharTok("{")>>)

\* the value-maps the fixture is declared into: a new one, and one that
\* holds a fixture f already
FixtureMaps ==
    {InitialValues,
     FixtureCall(FixtureOpened.next, InitialValues, Coordinate(InPath, 1),
                 <<>>, SomeToks(<<>>)).values}

\* the closing line of the body of the fixture, on line 3
FixtureCloseCall ==
    /\ ap_fn = "none"
    /\ \E vals \in FixtureMaps, toks \in CloseToks, b \in CloseBufs(3) :
           /\ ap_arg' = [d |-> FixtureOpened.next, vals |-> vals,
                         ec |-> Coordinate(InPath, 3), buf |-> b,
                         toks |-> toks]
           /\ ap_res' = FixtureCall(FixtureOpened.next, vals,
                                    Coordinate(InPath, 3), b, toks)
    /\ ap_fn' = "fixture"
    /\ UNCHANGED notApply

\* the closing line of the teardown body, on line 5, given to the callable
\* the first closing line returned
TeardownCloseCall ==
    /\ ap_fn = "fixture"
    /\ ap_res.ok
    /\ ap_res.next.kind # "none"
    /\ \E toks \in CloseToks, b \in CloseBufs(5) :
           /\ ap_arg' = [d |-> ap_res.next, vals |-> ap_res.values,
                         ec |-> Coordinate(InPath, 5), buf |-> b,
                         toks |-> toks, first |-> ap_arg.buf]
           /\ ap_res' = DeferredCall(ap_res.next, ap_res.values,
                                     Coordinate(InPath, 5), b, toks)
    /\ ap_fn' = "teardown"
    /\ UNCHANGED notApply

\* the render of one fixture into a new context
RenderOne(f) ==
    FixtureRender([exc |-> "none", ctxt |-> RenderContext(1), order |-> <<>>,
                   ret |-> NoRef],
                  Job("fixture", f.name, 0), f)

\* Fixture.render of the fixture the closing line just stored
FixtureRenderCall ==
    /\ ap_fn \in {"fixture", "teardown"}
    /\ ap_res.ok
    /\ ap_res.next.kind = "none"
    /\ ap_arg' = [from |-> ap_fn, vals |-> ap_arg.vals,
                  code |-> IF ap_fn = "fixture" THEN ap_arg.buf
                           ELSE ap_arg.first,
                  fixture |-> DictGet(ap_res.values.fixtures, W_f)]
    /\ ap_res' = [args |-> FixtureArgs(DictGet(ap_res.values.fixtures, W_f)),
                  res |-> RenderOne(DictGet(ap_res.values.fixtures, W_f))]
    /\ ap_fn' = "fixture_render"
    /\ UNCHANGED notApply

\* the tokens a directive is followed by: up to MaxToks of a few, and two
\* longer lists that declare requirements
HandlerAlphabet ==
    {Token(TOK_WORD, W_f), Token(TOK_STR, W_a), CharTok("{"), CharTok("("),
     CharTok(")")}

HandlerToks ==
    UNION {[1..n -> HandlerAlphabet] : n \in 0..MaxToks}
    \cup {<<Token(TOK_WORD, W_f), CharTok("("), Token(TOK_WORD, W_a),
             CharTok(")"), CharTok("{")>>,
           <<Token(TOK_WORD, W_f), CharTok("("), Token(TOK_WORD, W_a),
             CharTok(","), CharTok(")"), CharTok("{")>>}

\* the names registered in TemplateParser.DIRECTIVES
TemplateNames == {"insert", "literal", "define", "section"}

\* the value-maps a directive of a grammar is read into: a new one and one
\* that holds something
HandlerMaps(grammar) ==
    IF grammar = "hypo" THEN FixtureMaps
    ELSE {TemplateValues,
          [TemplateValues EXCEPT
               !.structure = <<InsertSection(W_f)>>,
               !.defines = <<[key |-> W_f, val |-> Define(W_f, <<>>)]>>]}

HandlerApplied(grammar, name, vals, toks, res) ==
    /\ ap_arg' = [grammar |-> grammar, name |-> name, vals |-> vals,
                  toks |-> toks]
    /\ ap_res' = res

\* the handler of a directive called with the tokens of its line, line 1
HandlerCall ==
    /\ ap_fn = "none"
    /\ \E toks \in HandlerToks :
           \/ \E n \in DIRECTIVES, vals \in HandlerMaps("hypo") :
                  HandlerApplied("hypo", n, vals, toks,
                      DirectiveCall(n, vals, Coordinate(InPath, 1), toks))
           \/ \E n \in TemplateNames, vals \in HandlerMaps("template") :
                  HandlerApplied("template", n, vals, toks,
                      TemplateDirectiveCall(n, vals, Coordinate(InPath, 1),
                                            toks))
    /\ ap_fn' = "handler"
    /\ UNCHANGED notApply

\* the callable the handler returned called with the closing line, line 3
ClosingCall ==
    /\ ap_fn = "handler"
    /\ ap_res.ok
    /\ ap_res.next.kind # "none"
    /\ \E toks \in CloseToks, b \in CloseBufs(3) :
           /\ ap_arg' = [grammar |-> ap_arg.grammar, name |-> ap_arg.name,
                         opened |-> ap_arg.toks, d |-> ap_res.next,
                         vals |-> ap_res.values, buf |-> b, toks |-> toks]
           /\ ap_res' = IF ap_arg.grammar = "hypo"
                        THEN DeferredCall(ap_res.next, ap_res.values,
                                          Coordinate(InPath, 3), b, toks)
                        ELSE TemplateDeferredCall(
                                 ap_res.next, ap_res.values,
                                 Coordinate(InPath, 3), b, toks)
    /\ ap_fn' = "closing"
    /\ UNCHANGED notApply

\* the characters a line is made of after the directive word
QuoteAlphabet == {"\"", "/", "*", "x"}

QuotedTexts == UNION {[1..n -> QuoteAlphabet] : n \in 0..MaxQuoted}

\* the parser as a line arrives: fresh, or one line in with the directive
\* word and an opened string held back by a continuation
QuotedParsers ==
    {NewParser,
     [NewParser EXCEPT !.continued =
                           SomeText(<<"%">> \o W_target \o <<"\"", "/">>),
                       !.start_coord = Coordinate(InPath, 1),
                       !.lines = 1]}

\* the line a parser is given: the directive word goes first on a fresh
\* parser
QuotedLine(ps, t) ==
    IF ps.continued.has THEN t \o <<"\n">>
    ELSE <<"%">> \o W_target \o t \o <<"\n">>

\* _parse_line on a directive line that holds quotes and comment markers
ParseLineCall ==
    /\ ap_fn = "none"
    /\ \E ps \in QuotedParsers, t \in QuotedTexts :
           /\ ap_arg' = [ps |-> ps, tail |-> t, line |-> QuotedLine(ps, t)]
           /\ ap_res' = ParseLine(ps, Coordinate(InPath, ps.lines + 1),
                                  QuotedLine(ps, t))
    /\ ap_fn' = "parse_line"
    /\ UNCHANGED notApply

-----------------------------------------------------------------------------
(* Parses made one after the other in one process *)

ParserClasses == {"HypoParser", "TemplateParser"}

StoredItems == {"p", "q"}

InitSeed ==
    /\ sd_heap = <<>>
    /\ sd_parses = <<>>

Running == sd_parses # <<>> /\ ~sd_parses[Len(sd_parses)].done

\* the values stored by the parses so far
RECURSIVE Stored(_)
Stored(parses) ==
    IF parses = <<>> THEN 0 ELSE Head(parses).stores + Stored(Tail(parses))

SeedTo(cls, st) ==
    /\ sd_heap' = st.heap
    /\ sd_parses' = Append(sd_parses, [cls |-> cls, values |-> st.values,
                                       stores |-> 0, done |-> FALSE,
                                       result |-> <<>>])

\* parse begins: values = self._values()
ParseBegin ==
    /\ ~Running
    /\ Len(sd_parses) < MaxParses
    /\ \E cls \in ParserClasses : SeedTo(cls, ParserValues(cls, sd_heap))
    /\ UNCHANGED notSeed

StoreTo(p, r) ==
    /\ sd_heap' = r.heap
    /\ sd_parses' = [sd_parses EXCEPT ![p].values = r.values,
                                      ![p].stores = @ + 1]

\* a directive of the input stores its result
ParseStore ==
    /\ Running
    /\ Stored(sd_parses) < MaxStores
    /\ \E k \in 1..Len(sd_parses[Len(sd_parses)].values), item \in StoredItems :
           StoreTo(Len(sd_parses),
                   HandlerStore(sd_parses[Len(sd_parses)].values, sd_heap, k,
                                item))
    /\ UNCHANGED notSeed

\* parse returns the value-map
ParseReturn ==
    /\ Running
    /\ sd_parses' = [sd_parses EXCEPT
           ![Len(sd_parses)].done = TRUE,
           ![Len(sd_parses)].result =
               ValuesRead(sd_parses[Len(sd_parses)].values, sd_heap)]
    /\ UNCHANGED <<sd_heap, notSeed>>

-----------------------------------------------------------------------------
(* Calls of Template.get_tmpl in one process *)

TmplNames == {<<"a", ".", "c">>, <<"b", ".", "c">>, <<"m", ".", "c">>}

LoadOutcomes == {"ok", "unreadable", "unparsable"}

InitCache ==
    /\ tc_cache = <<>>
    /\ tc_calls = <<>>
    /\ tc_next = 1

GetTmplDone(name, outcome, r) ==
    /\ tc_cache' = r.cache
    /\ tc_calls' = Append(tc_calls, [name |-> name, outcome |-> outcome,
                                     read |-> r.read, parsed |-> r.parsed,
                                     exc |-> r.exc, ret |-> r.ret])
    /\ tc_next' = IF r.made THEN tc_next + 1 ELSE tc_next

\* Template.get_tmpl(name)
GetTmplCall ==
    /\ Len(tc_calls) < MaxGets
    /\ \E name \in TmplNames, outcome \in LoadOutcomes :
           GetTmplDone(name, outcome, GetTmpl(tc_cache, name, outcome, tc_next))
    /\ UNCHANGED notCache

-----------------------------------------------------------------------------
(* Specifications *)

Init ==
    InitParse /\ InitList /\ InitTok /\ InitSection /\ InitTemplate /\ InitHypo
    /\ InitCache /\ InitHeap /\ InitApply /\ InitSeed

NextParse == FeedLine \/ FeedLastLine \/ EndOfStream

Spec == Init /\ [][NextParse]_vars

NextEnd == FeedLine \/ FeedLastLine \/ EndOfStreamAny

SpecEnd == Init /\ [][NextEnd]_vars

\* the stream is finite: the loop of parse runs out of lines and parse goes
\* on to its end-of-stream checks, unless a line raised before
SpecRun == Init /\ [][NextEnd]_vars /\ WF_vars(EndOfStreamAny)

NextList == DoAppend \/ DoExtend \/ DoOutput

NextTok == TokChar \/ TokFinish

SpecTok == Init /\ [][NextTok]_vars

SpecList == Init /\ [][NextList]_vars

NextSection == SectionCall \/ SectionNext \/ SectionReturn

SpecSection == Init /\ [][NextSection]_vars

NextTemplate == RenderCall \/ RenderAfresh

SpecTemplate == Init /\ [][NextTemplate]_vars

NextHypo ==
    DeclTarget \/ DeclPreamble \/ DeclTest \/ DeclMock \/ DeclFixture
    \/ RenderFile

SpecHypo == Init /\ [][NextHypo]_vars

NextCache == GetTmplCall

SpecCache == Init /\ [][NextCache]_vars

NextHeap == ListNew \/ ListAppend \/ ListExtend \/ ListAdd \/ ListIadd

SpecHeap == Init /\ [][NextHeap]_vars

NextApply ==
    \/ SubCall \/ MakeTypeCall \/ MockCall
    \/ FixtureCloseCall \/ TeardownCloseCall
    \/ HandlerCall \/ ClosingCall
    \/ ParseLineCall \/ FixtureRenderCall

SpecApply == Init /\ [][NextApply]_vars

NextSeed == ParseBegin \/ ParseStore \/ ParseReturn

SpecSeed == Init /\ [][NextSeed]_vars

-----------------------------------------------------------------------------
(* Properties of LineList.output *)

Max(S) == CHOOSE m \in S : \A n \in S : n <= m

\* the entry whose text is output line k
EntryOf(k) == Cardinality({j \in 1..k : out.stream[j].kind = "text"})

\* The file and line a C preprocessor attributes to line k of a file named
\* fname: the last #line directive before k gives the file, and its number
\* is that of the line right after the directive.
CppWhere(stream, fname, k) ==
    LET D == {j \in 1..(k - 1) : stream[j].kind = "line"}
    IN  IF D = {} THEN [file |-> fname, line |-> k]
        ELSE LET j == Max(D)
             IN  [file |-> stream[j].file, line |-> stream[j].n + (k - j - 1)]

\* C1: in the written text, every line of a located entry is attributed to
\* the entry's coordinate, and every line of an unlocated entry that comes
\* after a located one is attributed to the output file name and to the
\* line's own 1-based number in the output.
C1_LineAttribution ==
    out.written =>
        \A k \in 1..Len(out.stream) :
            out.stream[k].kind = "text" =>
                LET i == EntryOf(k)
                    e == entries[i]
                    w == CppWhere(out.stream, out.fname, k)
                IN  /\ e.coord # NoCoord =>
                           w = [file |-> e.coord.path, line |-> e.coord.lno]
                    /\ (e.coord = NoCoord
                        /\ \E j \in 1..(i - 1) : entries[j].coord # NoCoord) =>
                           w = [file |-> out.fname, line |-> k]

C1_Witness ==
    /\ out.written
    /\ \E i \in 1..(out.count - 2) :
           /\ entries[i].coord # NoCoord
           /\ entries[i + 1].coord = NoCoord
           /\ entries[i + 2].coord = NoCoord

\* the entry i of es is to be preceded by a #line directive
NeedsLine(es, i) ==
    \/ /\ es[i].coord # NoCoord
       /\ \/ i = 1
          \/ es[i - 1].coord = NoCoord
          \/ es[i - 1].coord.path # es[i].coord.path
          \/ es[i - 1].coord.lno + 1 # es[i].coord.lno
    \/ /\ es[i].coord = NoCoord
       /\ i > 1
       /\ es[i - 1].coord # NoCoord

\* C2: the written text is the entries' texts in order, with a #line
\* directive before an entry exactly when it is located and does not
\* continue the previous entry's coordinate, or is unlocated right after a
\* located entry; a run of consecutive coordinates gets one directive, at
\* its start, and a list without coordinates gets none.
C2_DirectivePlacement ==
    out.written =>
        LET n == out.count
            need == {j \in 1..n : NeedsLine(entries, j)}
            pos(i) == i + Cardinality({j \in need : j <= i})
            dirs == {k \in 1..Len(out.stream) : out.stream[k].kind = "line"}
        IN  /\ Len(out.stream) = n + Cardinality(need)
            /\ \A i \in 1..n :
                   /\ out.stream[pos(i)] = TextLine(entries[i].text)
                   /\ i \in need => out.stream[pos(i) - 1].kind = "line"
            /\ (n >= 1 /\ entries[1].coord # NoCoord
                /\ \A i \in 2..n :
                       entries[i].coord = CoordAdd(entries[i - 1].coord, 1))
                   => dirs = {1}
            /\ (\A i \in 1..n : entries[i].coord = NoCoord) => dirs = {}

C2_Witness ==
    /\ out.written
    /\ \E i \in 1..(out.count - 1) :
           /\ entries[i].coord # NoCoord
           /\ entries[i + 1].coord # NoCoord
           /\ entries[i + 1].coord.path # entries[i].coord.path
           /\ entries[i + 1].coord.lno = entries[i].coord.lno + 1
    /\ \E i \in 1..(out.count - 1) :
           /\ entries[i].coord # NoCoord
           /\ entries[i + 1].coord = CoordAdd(entries[i].coord, 1)

-----------------------------------------------------------------------------
(* Properties of PerFileParser.parse *)

LastFed == fed[Len(fed)]

\* the messages of an end of file inside a directive
UnclosedDirective ==
    {"unclosed_directive", "unclosed_preamble", "unclosed_test",
     "unclosed_fixture", "unclosed_teardown"}

EndOfFileErrors ==
    UnclosedDirective \cup {"trailing_continuation", "unclosed_comment"}

\* C3: at the end of the stream parse returns the value-map exactly when no
\* continuation fragment, no hanging comment and no deferred callable is
\* pending; otherwise it raises ParseException for the first of the three
\* that is pending.
C3_EndOfStream ==
    [][(pc = "reading" /\ pc' # "reading" /\ fed' = fed) =>
          /\ pc' = "returned" <=>
                 (~continued.has /\ ~comment_pfx.has /\ deferred.kind = "none")
          /\ pc' # "returned" =>
                 /\ pc' = "raised"
                 /\ raised'.exc = "ParseException"
                 /\ IF continued.has
                    THEN raised'.what = "trailing_continuation"
                    ELSE IF comment_pfx.has
                    THEN raised'.what = "unclosed_comment"
                    ELSE raised'.what \in UnclosedDirective]_vars

C3_Witness ==
    /\ pc = "raised"
    /\ raised.what = "unclosed_comment"
    /\ deferred.kind # "none"
    /\ LastFed.exc = "Continue"

\* C4: Continue never leaves parse: after a line that raised it the loop
\* reads on, or the stream has ended and parse returned or raised
\* ParseException.
C4_ContinueCaught ==
    /\ raised.exc \in {"none", "ParseException"}
    /\ \A i \in 1..Len(fed) :
           fed[i].exc = "Continue" =>
               \/ i < Len(fed)
               \/ pc = "reading"
               \/ pc = "returned"
               \/ pc = "raised" /\ raised.what \in EndOfFileErrors

C4_Witness ==
    /\ pc = "reading"
    /\ deferred.kind = "teardown"
    /\ LastFed.exc = "Continue"
    /\ LastFed.inbody
    /\ \E i \in 1..Len(fed) : fed[i].exc = "Continue" /\ ~fed[i].inbody

\* the longest prefix of s made of letters, digits and underscores
WordPrefix(s) ==
    LET ok == {i \in 0..Len(s) :
                 \A j \in 1..i : s[j] = "_" \/ IsAlnum(s[j])}
    IN  SubSeq(s, 1, Max(ok))

\* the assembled line is a "%", then a word that names a directive
NamesDirective(text) ==
    /\ text # <<>>
    /\ text[1] = "%"
    /\ LET rest == LStrip(Tail(text))
       IN  /\ rest # <<>>
           /\ rest[1] = "_" \/ IsAlpha(rest[1])
           /\ WordPrefix(rest) \in DIRECTIVES

\* C5: with no body open, a completed line that does not start with "%" and
\* a registered directive name fails with ParseException without any handler
\* being called, and the deferred callable and the buffer stay null; a
\* handler is called only for a line that names its directive.
C5_DirectiveRequired ==
    \A i \in 1..Len(fed) :
        (fed[i].mode = "directive" /\ fed[i].exc # "Continue") =>
            /\ ~NamesDirective(fed[i].text) =>
                   /\ fed[i].exc = "ParseException"
                   /\ fed[i].call = <<>>
                   /\ i = Len(fed)
                   /\ pc = "raised"
                   /\ deferred.kind = "none"
                   /\ ~buf.has
            /\ fed[i].call # <<>> =>
                   /\ NamesDirective(fed[i].text)
                   /\ fed[i].call[1].kind = "handler"
                   /\ fed[i].call[1].who = WordPrefix(LStrip(Tail(fed[i].text)))

C5_Witness ==
    /\ pc = "raised"
    /\ raised.what = "invalid_directive"
    /\ LastFed.mode = "directive"
    /\ LastFed.toks # <<>>
    /\ LastFed.toks[1].type_ = TOK_WORD
    /\ Len(fed) > 1

\* the assembled line is a "%", then a closing brace
BeginsWithClose(text) ==
    /\ text # <<>>
    /\ text[1] = "%"
    /\ LET rest == LStrip(Tail(text))
       IN  rest # <<>> /\ rest[1] = "}"

\* C6: with a body open, a line is parsed as a directive line exactly when
\* a comment or continuation is pending or its first non-blank character is
\* "%"; when the line it completes does not begin with "%}" ParseException
\* is raised, the deferred callable is not called and it and the buffer
\* stay as they were.
C6_CloseRequired ==
    [][(fed' # fed /\ deferred.kind # "none") =>
          LET e == fed'[Len(fed')]
          IN  /\ e.mode = "close" <=>
                     (comment_pfx.has \/ continued.has
                      \/ StartsWith(LStrip(e.raw), <<"%">>))
              /\ (e.mode = "close" /\ e.exc # "Continue"
                  /\ ~BeginsWithClose(e.text)) =>
                     /\ e.exc = "ParseException"
                     /\ pc' = "raised"
                     /\ e.call = <<>>
                     /\ calls' = calls
                     /\ deferred' = deferred
                     /\ buf' = buf
              /\ e.call # <<>> => BeginsWithClose(e.text)]_vars

C6_Witness ==
    /\ pc = "raised"
    /\ raised.what = "invalid_directive"
    /\ LastFed.mode = "close"
    /\ LastFed.pending
    /\ LastFed.toks # <<>>
    /\ buf.has
    /\ buf.es # <<>>

\* the raw line without its trailing newline
Chomp(raw) ==
    IF raw # <<>> /\ raw[Len(raw)] = "\n" THEN SubSeq(raw, 1, Len(raw) - 1)
    ELSE raw

\* line k arrived with a body open, nothing pending and no leading "%"
IsBodyLine(k) ==
    /\ fed[k].inbody
    /\ ~fed[k].pending
    /\ \A i \in 1..Len(fed[k].raw) :
           fed[k].raw[i] = "%" => \E j \in 1..(i - 1) : ~IsSpace(fed[k].raw[j])

\* the body lines among the lines a..b, as buffer entries
RECURSIVE BodyLines(_, _)
BodyLines(a, b) ==
    IF a > b THEN <<>>
    ELSE (IF IsBodyLine(a)
          THEN <<Entry(Coordinate(InPath, a), Chomp(fed[a].raw))>>
          ELSE <<>>) \o BodyLines(a + 1, b)

\* the last line before line k on which a handler or callable was called
\* and returned
LastCallBefore(k) ==
    Max({0} \cup {j \in 1..(k - 1) :
                     fed[j].call # <<>> /\ fed[j].call[1].ok})

C8_BufferFollowsDeferred ==
    /\ buf.has <=> deferred.kind # "none"
    /\ (fed # <<>> /\ LastFed.call # <<>> /\ LastFed.call[1].ok) =>
           IF LastFed.call[1].next # "none"
           THEN deferred.kind = LastFed.call[1].next /\ buf = List(<<>>)
           ELSE deferred.kind = "none" /\ buf = NoList
    /\ \A k \in 1..Len(fed) :
           (fed[k].call # <<>> /\ fed[k].call[1].kind = "deferred") =>
               \A x \in 1..Len(fed[k].call[1].buf) :
                   LET n == fed[k].call[1].buf[x].coord.lno
                   IN  LastCallBefore(k) < n /\ n < k

C8_Witness ==
    /\ fed # <<>>
    /\ pc = "reading"
    /\ LastFed.call # <<>>
    /\ LastFed.call[1].kind = "deferred"
    /\ LastFed.call[1].who = "teardown"
    /\ LastFed.call[1].ok
    /\ LastFed.call[1].buf = <<>>
    /\ buf = NoList
    /\ \E i \in 1..Len(calls) :
           /\ calls[i].kind = "deferred"
           /\ calls[i].who = "fixture"
           /\ calls[i].next = "teardown"
           /\ calls[i].buf # <<>>

\* the first line of the run of lines that was assembled into line k: every
\* later line of the run arrived with a comment or continuation pending
AccStart(k) ==
    Min({j \in 1..k : \A i \in (j + 1)..k : fed[i].pending})

\* C9: a directive line assembled from several input lines is reported to
\* the handler or callable at the coordinate of the first of those lines,
\* and the recorded coordinate is cleared when the line completes.
C9_StartCoordinate ==
    \A k \in 1..Len(fed) :
        (fed[k].pending /\ fed[k].completed) =>
            /\ fed[k].dir_coord = Coordinate(InPath, AccStart(k))
            /\ k = Len(fed) => start_coord = NoCoord

\* a left-to-right scan for comments: acc is the text kept so far
RECURSIVE RefScan(_, _)
RefScan(s, acc) ==
    IF s = <<>> THEN [hang |-> FALSE, line |-> acc]
    ELSE IF StartsWith(s, <<"/", "/">>) THEN [hang |-> FALSE, line |-> acc]
    ELSE IF StartsWith(s, <<"/", "*">>)
    THEN LET ends == {i \in 3..(Len(s) - 1) : s[i] = "*" /\ s[i + 1] = "/"}
         IN  IF ends = {} THEN [hang |-> TRUE, line |-> acc]
             ELSE RefScan(SubSeq(s, Min(ends) + 2, Len(s)), Append(acc, " "))
    ELSE RefScan(Tail(s), Append(acc, Head(s)))

\* the text after the first "*/" of s, when there is one
AfterClose(s) ==
    LET ends == {i \in 1..(Len(s) - 1) : s[i] = "*" /\ s[i + 1] = "/"}
    IN  IF ends = {} THEN [found |-> FALSE, rest |-> <<>>]
        ELSE [found |-> TRUE, rest |-> SubSeq(s, Min(ends) + 2, Len(s))]

\* C10: on a directive line comments are taken from left to right: "//"
\* drops the rest of the line, a block comment that closes becomes one
\* space, an unclosed one holds the text before it and asks for more input,
\* and while it is open a line without "*/" changes nothing.
C10_Comments ==
    [][fed' # fed =>
          LET e == fed'[Len(fed')]
              inp == IF continued.has THEN continued.v \o <<" ">> \o e.raw
                     ELSE e.raw
              close == AfterClose(inp)
              scanned == RefScan(IF comment_pfx.has
                                 THEN comment_pfx.v \o <<" ">> \o close.rest
                                 ELSE inp, <<>>)
          IN  e.mode # "body" =>
                  IF comment_pfx.has /\ ~close.found
                  THEN /\ e.exc = "Continue"
                       /\ comment_pfx' = comment_pfx
                       /\ UNCHANGED <<deferred, buf, values, calls,
                                      start_coord>>
                  ELSE IF scanned.hang
                  THEN /\ e.exc = "Continue"
                       /\ comment_pfx' = SomeText(scanned.line)
                  ELSE /\ ~comment_pfx'.has
                       /\ e.text = Strip(scanned.line)]_vars

C10_Witness ==
    /\ fed # <<>>
    /\ pc = "reading"
    /\ LastFed.comment
    /\ LastFed.completed
    /\ deferred.kind = "preamble"
    /\ \E i \in 1..Len(fed) :
           fed[i].raw = L_fixture \o <<"\n">> /\ fed[i].call # <<>>
                                              /\ fed[i].call[1].ok

\* line k was read as a directive line and what was left of it ends with
\* a backslash
EndsContinued(k) ==
    /\ fed[k].mode # "body"
    /\ fed[k].text # <<>>
    /\ fed[k].text[Len(fed[k].text)] = "\\"

\* the text held back after line k, which ends with a backslash
Held(k) == SubSeq(fed[k].text, 1, Len(fed[k].text) - 1)

\* what line k is read as: the raw line, behind the text held back by the
\* line before it and one space
Joined(k) ==
    IF k > 1 /\ EndsContinued(k - 1)
    THEN Held(k - 1) \o <<" ">> \o fed[k].raw
    ELSE fed[k].raw

\* C11: a directive line that ends with a backslash once comments are gone
\* and it is trimmed is held back without the backslash and nothing is
\* tokenised or called; the next line is read behind the held text and one
\* space, any number of times, and the tokens of the line that completes
\* are those of the joined text.
C11_Continuation ==
    \A k \in 1..Len(fed) :
        (fed[k].mode # "body" /\ ~fed[k].comment) =>
            /\ (fed[k].pending <=> (k > 1 /\ EndsContinued(k - 1)))
            /\ ~RefScan(Joined(k), <<>>).hang =>
                   fed[k].text = Strip(RefScan(Joined(k), <<>>).line)
            /\ EndsContinued(k) =>
                   /\ fed[k].exc = "Continue"
                   /\ fed[k].toks = <<>>
                   /\ fed[k].call = <<>>
                   /\ k = Len(fed) => continued = SomeText(Held(k))
            /\ fed[k].completed =>
                   fed[k].toks = Tokenize(Tail(fed[k].text)).toks

C11_Witness ==
    /\ Len(fed) >= 3
    /\ EndsContinued(Len(fed) - 2)
    /\ EndsContinued(Len(fed) - 1)
    /\ LastFed.completed
    /\ Len(LastFed.toks) = 4
    /\ LastFed.call # <<>>

\* the messages that are made with "at <coordinate>" or "starts at
\* <coordinate>"
Located(r) == r.loc # NoCoord /\ r.loc.path = InPath /\ r.loc.lno >= 1

C31_EndOfFile ==
    [][(pc = "reading" /\ pc' # "reading" /\ fed' = fed) =>
          IF continued.has \/ comment_pfx.has
          THEN /\ calls' = calls
               /\ pc' = "raised"
               /\ raised'.exc = "ParseException"
               /\ raised'.what = IF continued.has THEN "trailing_continuation"
                                 ELSE "unclosed_comment"
          ELSE IF deferred.kind # "none"
          THEN /\ Len(calls') = Len(calls) + 1
               /\ SubSeq(calls', 1, Len(calls)) = calls
               /\ calls'[Len(calls')].kind = "deferred"
               /\ calls'[Len(calls')].who = deferred.kind
               /\ calls'[Len(calls')].coord = Coordinate(InPath, Len(fed))
               /\ calls'[Len(calls')].buf = buf.es
               /\ calls'[Len(calls')].toks = NoneToks
               /\ pc' = "raised"
               /\ raised'.exc = "ParseException"
          ELSE calls' = calls /\ pc' = "returned"]_vars

\* the stream ended in a directive with a line of body, and the deferred
\* callable returned when it was called
C31_Witness ==
    /\ pc = "raised"
    /\ raised.what = "unclosed_directive"
    /\ ~continued.has
    /\ ~comment_pfx.has
    /\ calls # <<>>
    /\ calls[Len(calls)].kind = "deferred"
    /\ calls[Len(calls)].ok
    /\ calls[Len(calls)].toks = NoneToks
    /\ calls[Len(calls)].buf # <<>>
    /\ calls[Len(calls)].coord = Coordinate(InPath, Len(fed))

\* every turn of the comment loop that loops around leaves a shorter text
RECURSIVE Shortens(_)
Shortens(line) ==
    CommentStep(line).kind = "again" =>
        /\ Len(CommentStep(line).line) < Len(line)
        /\ Shortens(CommentStep(line).line)

\* how many times the comment loop loops around on line
RECURSIVE Turns(_)
Turns(line) ==
    IF CommentStep(line).kind = "again"
    THEN 1 + Turns(CommentStep(line).line) ELSE 0

\* the line just read reached the comment loop
ReachedScan(ps, raw, mode) ==
    /\ mode # "body"
    /\ ~(ps.comment_pfx.has
         /\ Find(Continued(ps, raw), <<"*", "/">>, 0) < 0)

\* the text the comment loop started on for the line just read
ScannedOf(ps, raw) ==
    Scanned(ps, Continued(ps, raw),
            Find(Continued(ps, raw), <<"*", "/">>, 0))

\* C36: parse of a finite stream ends (it returns or raises); the lines
\* are read once each, in order, at the coordinates 1, 2, ... of the parsed
\* path; and on every line that reaches the comment loop each turn of the
\* loop either leaves the loop or goes on with a strictly shorter text.
C36_Terminates ==
    /\ <>(pc \in {"returned", "raised"})
    /\ [](/\ lines = Len(fed)
          /\ \A k \in 1..Len(fed) : fed[k].coord = Coordinate(InPath, k))
    /\ [][Len(fed') = Len(fed) + 1 =>
            /\ SubSeq(fed', 1, Len(fed)) = fed
            /\ ReachedScan(PS, fed'[Len(fed')].raw, fed'[Len(fed')].mode) =>
                   Shortens(ScannedOf(PS, fed'[Len(fed')].raw))]_vars

C36_Witness ==
    /\ pc = "returned"
    /\ Len(fed) >= 3
    /\ \E k \in 1..Len(fed) :
           /\ fed[k].mode = "close"
           /\ ~fed[k].pending
           /\ Turns(fed[k].raw) >= 2

\* the entries b are the lines a..z of the parsed file, one entry a line
Consecutive(b, a, z) ==
    /\ Len(b) = (IF z >= a THEN z - a + 1 ELSE 0)
    /\ \A i \in 1..Len(b) : b[i].coord = Coordinate(InPath, a + i - 1)

\* C38: the buffer handed to a continuation holds one entry for each line
\* from the line after the one on which the previous call was made (the
\* opening or chaining line) to the line before the first line of the
\* closing directive, with consecutive line numbers on the parsed path; the
\* lines read while the closing line was still pending are not among them.
\* At the end of the stream the buffer runs to the last line read.
C38_ConsecutiveBody ==
    /\ \A k \in 1..Len(fed) :
           (fed[k].call # <<>> /\ fed[k].call[1].kind = "deferred") =>
               Consecutive(fed[k].call[1].buf, LastCallBefore(k) + 1,
                           AccStart(k) - 1)
    /\ (calls # <<>> /\ calls[Len(calls)].toks.none) =>
           Consecutive(calls[Len(calls)].buf,
                       LastCallBefore(Len(fed) + 1) + 1, Len(fed))

C38_Witness ==
    /\ Len(fed) = 4
    /\ LastFed.call # <<>>
    /\ LastFed.call[1].kind = "deferred"
    /\ LastFed.pending
    /\ fed[3].raw = L_closing \o <<"\n">>
    /\ LastFed.call[1].coord = Coordinate(InPath, 3)
    /\ Len(LastFed.call[1].buf) = 1
    /\ LastFed.call[1].buf[1].coord = Coordinate(InPath, 2)

\* C37: after every line fed the recorded start coordinate is set only
\* while a continuation fragment or a hanging block comment is pending, and
\* a directive that is written on one line, with nothing pending when the
\* line arrived, is reported at the coordinate of that line.
C37_StartOnlyPending ==
    /\ start_coord # NoCoord => (continued.has \/ comment_pfx.has)
    /\ \A k \in 1..Len(fed) :
           (fed[k].completed /\ ~fed[k].pending) =>
               fed[k].dir_coord = fed[k].coord

-----------------------------------------------------------------------------
(* Properties of PerFileParser._tokenize *)

QuoteCount(s) == Cardinality({i \in 1..Len(s) : s[i] = "\""})

\* the tokens of a text read by maximal runs: blanks are skipped, a quote
\* takes everything up to the next quote, a letter or underscore takes the
\* longest run of word characters, anything else stands alone
RECURSIVE RefToks(_)
RefToks(s) ==
    IF s = <<>> THEN <<>>
    ELSE IF IsSpace(s[1]) THEN RefToks(Tail(s))
    ELSE IF s[1] = "\""
    THEN LET close == Min({i \in 2..Len(s) : s[i] = "\""})
         IN  <<Token(TOK_STR, SubSeq(s, 2, close - 1))>>
                 \o RefToks(SubSeq(s, close + 1, Len(s)))
    ELSE IF s[1] = "_" \/ IsAlpha(s[1])
    THEN <<Token(TOK_WORD, WordPrefix(s))>>
             \o RefToks(SubSeq(s, Len(WordPrefix(s)) + 1, Len(s)))
    ELSE <<Token(TOK_CHAR, <<s[1]>>)>> \o RefToks(Tail(s))

\* C12: for a text without an unclosed string the tokenizer yields, in
\* order, a WORD for every maximal run of word characters that starts with
\* a letter or underscore, a STRING with exactly what is between each pair
\* of quotes, and a one-character CHAR for every other non-blank character.
C12_Tokens ==
    (tk_pc # "scanning" /\ QuoteCount(tk_text) % 2 = 0) =>
        tk_out = RefToks(tk_text)

C12_Witness ==
    /\ tk_pc = "done"
    /\ tk_text = <<"a", "1", "\"", " ", "\"">>
    /\ tk_out = <<Token(TOK_WORD, <<"a", "1">>), Token(TOK_STR, <<" ">>)>>

\* C13: the tokenizer raises ParseException exactly when the text has an
\* odd number of double quotes; otherwise a WORD pending at the end of the
\* text is the last token and every token yielded before it is kept.
C13_UnclosedString ==
    tk_pc # "scanning" =>
        /\ tk_pc = "raised" <=> QuoteCount(tk_text) % 2 = 1
        /\ tk_pc = "raised" <=> tk_st.state = TOK_STR
        /\ (tk_pc = "done" /\ tk_st.state = TOK_WORD) =>
               /\ tk_out = Append(tk_st.toks, Token(TOK_WORD, tk_st.buf))
               /\ tk_st.buf # <<>>
               /\ EndsWith(tk_text, tk_st.buf)
        /\ (tk_pc = "done" /\ tk_st.state = "none") => tk_out = tk_st.toks

C13_Witness ==
    /\ tk_pc = "raised"
    /\ QuoteCount(tk_text) = 3
    /\ Len(tk_st.toks) = 2

-----------------------------------------------------------------------------
(* Properties of the fixture directive *)

\* the kind of callable pending when line k arrives
OpenKind(k) ==
    IF LastCallBefore(k) = 0 THEN "none"
    ELSE fed[LastCallBefore(k)].call[1].next

\* line k completed as a "%}" followed by the tokens rest
ClosesWith(k, rest) ==
    fed[k].completed /\ fed[k].toks = <<CharTok("}")>> \o rest

TeardownOpen == <<Token(TOK_WORD, W_teardown), CharTok("{")>>

\* the name given on the fixture line k: the token before its brace
FixtureName(k) == fed[k].toks[Len(fed[k].toks) - 1].value

\* the fixtures stored under name
StoredFixtures(name) ==
    {i \in 1..Len(values.fixtures) : values.fixtures[i].key = name}

-----------------------------------------------------------------------------
(* Properties of the failures of a rendering *)

\* the exception that left the last call of Template.render
LastCallExc ==
    IF rc_calls = <<>> THEN "none" ELSE rc_calls[Len(rc_calls)].exc

\* C15: every failure that reaches the caller while parsing or rendering is
\* a ParseException: a parse, a call of Section.render, a call of
\* Template.render and HypoFile.render raise nothing else, whether the
\* section names a variable that is not bound or the test a fixture that
\* was never declared.
C15_OnlyParseException ==
    /\ raised.exc \in {"none", "ParseException"}
    /\ sc_pc = "raised" => sc_res.exc = "ParseException"
    /\ rc_pc = "raised" => LastCallExc = "ParseException"
    /\ hf_pc = "raised" => hf_res.exc = "ParseException"

-----------------------------------------------------------------------------
(* Properties of Section.render *)

LastLine == sc_body[Len(sc_body)]

IsReplaceLine(text) == StartsWith(text, W_replace)

\* the names of the {{identifier}} occurrences of a text, from position i
RECURSIVE Occurrences(_, _)
Occurrences(s, i) ==
    IF i >= Len(s) THEN {}
    ELSE IF SubstMatch(s, i).ok
    THEN {SubstMatch(s, i).name} \cup Occurrences(s, SubstMatch(s, i).end)
    ELSE Occurrences(s, i + 1)

IsScalar(v) == v.t \in {"str", "none", "int"}

DigitOf(n) == CHOOSE d \in Digits : Ord(d) = n + 1

\* str(value) of a str, of None and of an int of one digit
PyStr(v) ==
    CASE v.t = "str" -> v.s
      [] v.t = "none" -> <<"N", "o", "n", "e">>
      [] v.t = "int" -> <<DigitOf(v.n)>>

\* the text with every occurrence replaced by the string form of its value
RECURSIVE Expand(_, _, _)
Expand(s, kw, i) ==
    IF i >= Len(s) THEN <<>>
    ELSE IF SubstMatch(s, i).ok
    THEN PyStr(DictGet(kw, SubstMatch(s, i).name))
         \o Expand(s, kw, SubstMatch(s, i).end)
    ELSE <<s[i + 1]>> \o Expand(s, kw, i + 1)

\* the line the loop took last is no #replace line and each identifier in it
\* is bound to a str, to None or to an int
SubstCase ==
    /\ sc_body # <<>>
    /\ ~IsReplaceLine(LastLine.text)
    /\ \A n \in Occurrences(LastLine.text, 0) :
           HasKey(sc_kw, n) /\ IsScalar(DictGet(sc_kw, n))

\* C16: a line that is not a #replace line comes out with each
\* {{identifier}} replaced by the string form of the value bound to it,
\* whatever the type of the value, and with the coordinate of the line.
C16_StringForm ==
    SubstCase =>
        /\ sc_res.exc = "none"
        /\ sc_res.es # <<>>
        /\ sc_res.es[Len(sc_res.es)]
               = Entry(LastLine.coord, Expand(LastLine.text, sc_kw, 0))

\* the lines bound to a name: a str is one line, a list and a LineList are
\* their lines in order
LinesOf(v) == IF v.t = "str" THEN <<v.s>> ELSE EntryTexts(v.es)

HoldsLines(v) == v.t \in {"str", "list", "llist"}

ReplaceName(text) == Split(text)[2]

\* the loop takes a line "#replace <name>" whose name is bound to lines
ReplaceCase ==
    /\ sc_pc = "loop"
    /\ sc_pc' # "returned"
    /\ IsReplaceLine(sc_body'[Len(sc_body')].text)
    /\ Len(Split(sc_body'[Len(sc_body')].text)) >= 2
    /\ HasKey(sc_kw, ReplaceName(sc_body'[Len(sc_body')].text))
    /\ HoldsLines(DictGet(sc_kw, ReplaceName(sc_body'[Len(sc_body')].text)))

\* the loop takes a line that is replaced by one line
KeepCase ==
    /\ sc_pc = "loop"
    /\ sc_pc' = "loop"
    /\ ~IsReplaceLine(sc_body'[Len(sc_body')].text)

\* C17: a line "#replace <name>" is replaced by the lines bound to <name>,
\* one entry per line in their order, each without coordinate; a line that
\* is not replaced keeps its coordinate.
C17_Replace ==
    [][/\ ReplaceCase =>
              /\ sc_res'.exc = "none"
              /\ sc_res'.es
                     = LLExtend(sc_res.es,
                                LinesOf(DictGet(sc_kw,
                                    ReplaceName(sc_body'[Len(sc_body')].text))),
                                NoCoord)
       /\ KeepCase =>
              /\ Len(sc_res'.es) = Len(sc_res.es) + 1
              /\ SubSeq(sc_res'.es, 1, Len(sc_res.es)) = sc_res.es
              /\ sc_res'.es[Len(sc_res'.es)].coord
                     = sc_body'[Len(sc_body')].coord]_vars

\* what a value bound to lines is spliced in as: the lines of a LineList
\* with their coordinates, the elements of a list and the one line of a str
\* without coordinate
SplicedAs(v) ==
    IF v.t = "llist" THEN v.es
    ELSE [i \in 1..Len(LinesOf(v)) |-> Entry(NoCoord, LinesOf(v)[i])]

\* C32: a line "#replace <name>" is replaced, for a list, by one entry for
\* each element without coordinate, for a str by one entry that holds the
\* whole string, and for a LineList by its lines, each with the coordinate
\* it has there.
C32_ReplaceKinds ==
    [][ReplaceCase =>
           /\ sc_res'.exc = "none"
           /\ sc_res'.es
                  = sc_res.es
                    \o SplicedAs(DictGet(sc_kw,
                           ReplaceName(sc_body'[Len(sc_body')].text)))]_vars

-----------------------------------------------------------------------------
(* Properties of Template.render *)

SectionNames == {S_body, S_tail}

\* what one call rendered for a section name: nothing when the template has
\* no such section, when the section is skipped or when it raised
Contribution(c, name) ==
    IF ~HasKey(c.tmpl.sections, name) THEN <<>>
    ELSE LET r == SectionRender(DictGet(c.tmpl.sections, name),
                                RealizeDefines(c.tmpl.defines, 1, c.kw))
         IN  IF r.exc = "none" /\ r.has THEN r.es ELSE <<>>

\* the contributions of the first n calls, one after the other
RECURSIVE Contributions(_, _, _)
Contributions(cs, n, name) ==
    IF n = 0 THEN <<>>
    ELSE Contributions(cs, n - 1, name) \o Contribution(cs[n], name)

IsPrefix(a, b) == Len(a) <= Len(b) /\ SubSeq(b, 1, Len(a)) = a

\* the calls that returned
Completed == IF rc_pc = "raised" THEN Len(rc_calls) - 1 ELSE Len(rc_calls)

\* C18: the content accumulated under a section name is the concatenation,
\* in call order, of what each call rendered for that name; a call that
\* raised has taken nothing away from what the calls before it contributed.
C18_Accumulation ==
    \A name \in SectionNames :
        /\ rc_pc = "ready" =>
               SectionOf(rc_ctxt.sections, name)
                   = Contributions(rc_calls, Len(rc_calls), name)
        /\ IsPrefix(Contributions(rc_calls, Completed, name),
                    SectionOf(rc_ctxt.sections, name))

C18_Witness ==
    /\ rc_pc = "ready"
    /\ Len(rc_calls) = 3
    /\ rc_calls[1].tmpl # rc_calls[2].tmpl
    /\ Contribution(rc_calls[1], S_body) # <<>>
    /\ Contribution(rc_calls[2], S_body) # <<>>
    /\ Contribution(rc_calls[3], S_body) = <<>>
    /\ Len(SectionOf(rc_ctxt.sections, S_body)) >= 3
    /\ SectionOf(rc_ctxt.sections, S_tail) # <<>>

\* what the structure of the n-th call adds to the output: the body of a
\* Literal, and for an InsertSection what the first n calls contributed
RECURSIVE Assembly(_, _, _, _)
Assembly(structure, i, cs, n) ==
    IF i > Len(structure) THEN <<>>
    ELSE (IF structure[i].kind = "literal" THEN structure[i].code
          ELSE Contributions(cs, n, structure[i].section))
         \o Assembly(structure, i + 1, cs, n)

RECURSIVE OutputAfter(_, _)
OutputAfter(cs, n) ==
    IF n = 0 THEN <<>>
    ELSE OutputAfter(cs, n - 1) \o Assembly(cs[n].tmpl.structure, 1, cs, n)

\* C19: each call adds to the output its structure in document order, a
\* Literal as its body and an InsertSection as the content accumulated by
\* this call and the calls before it, so what later calls contribute is not
\* in it; a call that raised added nothing.  Every call returns the output
\* list of the context, and on one context this list only grows.
C19_Assembly ==
    /\ [](/\ rc_ctxt.output.es = OutputAfter(rc_calls, Completed)
          /\ \A i \in 1..Completed :
                 rc_calls[i].ret = rc_ctxt.output.id)
    /\ [][rc_ctxt'.output.id = rc_ctxt.output.id =>
              IsPrefix(rc_ctxt.output.es, rc_ctxt'.output.es)]_vars

C19_Witness ==
    /\ rc_pc = "ready"
    /\ Len(rc_calls) = 3
    /\ rc_calls[1].tmpl = DefTemplate
    /\ rc_calls[2].tmpl = ChildTemplate
    /\ rc_calls[3].tmpl = PageTemplate
    /\ Contribution(rc_calls[2], S_body) # <<>>
    /\ Len(rc_ctxt.output.es) > Len(OutputAfter(rc_calls, 1))
    /\ rc_ctxt.output.id = 2

NewlinesOf(s) == {i \in 1..Len(s) : s[i] = "\n"}

FirstOf(S) == CHOOSE i \in S : \A j \in S : i <= j

\* the lines of a text: what stands before, between and after its newlines
RECURSIVE LinesBetween(_)
LinesBetween(s) ==
    IF NewlinesOf(s) = {} THEN <<s>>
    ELSE <<SubSeq(s, 1, FirstOf(NewlinesOf(s)) - 1)>>
         \o LinesBetween(SubSeq(s, FirstOf(NewlinesOf(s)) + 1, Len(s)))

WithoutEmptyLast(ls) ==
    IF ls[Len(ls)] = <<>> THEN SubSeq(ls, 1, Len(ls) - 1) ELSE ls

\* how the result of a define is bound
BoundAs(result) ==
    IF NewlinesOf(result) = {} THEN StrVal(result)
    ELSE ListVal(WithoutEmptyLast(LinesBetween(result)))

\* the keyword arguments the i-th define is rendered with: those of the call
\* and the results of the defines registered before it
RECURSIVE SeenBy(_, _, _)
SeenBy(defines, i, kw) ==
    IF i = 1 THEN kw
    ELSE DictSet(SeenBy(defines, i - 1, kw), defines[i - 1].key,
                 BoundAs(JinjaRender(
                     JoinLines(EntryTexts(defines[i - 1].val.contents)),
                     SeenBy(defines, i - 1, kw))))

\* what a section adds when it is rendered with the arguments of the call
\* and the results of all the defines
Expected(c, sec) ==
    SectionRender(sec, SeenBy(c.tmpl.defines, Len(c.tmpl.defines) + 1, c.kw)).es

LastCall == rc_calls'[Len(rc_calls')]

\* C21: a call of Template.render that returns has rendered every section
\* with the keyword arguments of the call extended by the results of all the
\* defines, each define rendered in registration order with the results of
\* the defines before it; a result with a newline is bound as the list of
\* its lines without one empty last line, any other result as one string.
C21_Defines ==
    [][(Len(rc_calls') = Len(rc_calls) + 1 /\ LastCall.exc = "none") =>
           \A i \in 1..Len(LastCall.tmpl.sections) :
               SectionOf(rc_ctxt'.sections, LastCall.tmpl.sections[i].key)
                   = SectionOf(rc_ctxt.sections, LastCall.tmpl.sections[i].key)
                     \o Expected(LastCall, LastCall.tmpl.sections[i].val)]_vars

C21_Witness ==
    /\ rc_pc = "ready"
    /\ Len(rc_calls) = 2
    /\ rc_calls[1].tmpl = DefTemplate
    /\ rc_calls[1].kw = <<>>
    /\ rc_calls[2].tmpl = DefTemplate
    /\ rc_calls[2].kw = <<KwArg(V_x, StrVal(<<"p", "q">>)), YBound>>
    /\ EntryTexts(SectionOf(rc_ctxt.sections, S_body))
           = <<<<"p">>, <<"p">>, <<"p", "q">>>>
    /\ EntryTexts(SectionOf(rc_ctxt.sections, S_tail)) = <<<<"w", "p", "q">>>>

\* the keyword arguments once the defines of the call are bound
SeenBySections(c) == SeenBy(c.tmpl.defines, Len(c.tmpl.defines) + 1, c.kw)

\* a required variable of the section is absent from them
Lacking(c, sec) == \E v \in sec.requires : ~HasKey(SeenBySections(c), v)

\* C22: a section with a required variable absent from the keyword arguments
\* adds nothing to the content accumulated under its name and raises no
\* error: a call that raised did so in a section that lacks nothing, and a
\* call whose sections all lack a variable returns and leaves the content
\* of every section as it was.
C22_SkippedSection ==
    [][Len(rc_calls') = Len(rc_calls) + 1 =>
           /\ \A i \in 1..Len(LastCall.tmpl.sections) :
                  Lacking(LastCall, LastCall.tmpl.sections[i].val) =>
                      SectionOf(rc_ctxt'.sections, LastCall.tmpl.sections[i].key)
                          = SectionOf(rc_ctxt.sections,
                                      LastCall.tmpl.sections[i].key)
           /\ LastCall.exc # "none" =>
                  \E i \in 1..Len(LastCall.tmpl.sections) :
                      /\ ~Lacking(LastCall, LastCall.tmpl.sections[i].val)
                      /\ SectionRender(LastCall.tmpl.sections[i].val,
                                       SeenBySections(LastCall)).exc # "none"
           /\ (\A i \in 1..Len(LastCall.tmpl.sections) :
                   Lacking(LastCall, LastCall.tmpl.sections[i].val)) =>
                  /\ LastCall.exc = "none"
                  /\ \A name \in SectionNames :
                         SectionOf(rc_ctxt'.sections, name)
                             = SectionOf(rc_ctxt.sections, name)]_vars

C22_Witness ==
    /\ rc_pc = "ready"
    /\ Len(rc_calls) = 2
    /\ rc_calls[1].tmpl = DefTemplate
    /\ HasKey(rc_calls[1].kw, V_y)
    /\ rc_calls[2].tmpl = GuardTemplate
    /\ ~HasKey(rc_calls[2].kw, V_y)
    /\ rc_calls[2].exc = "none"
    /\ SectionOf(rc_ctxt.sections, S_tail) = Contribution(rc_calls[1], S_tail)
    /\ SectionOf(rc_ctxt.sections, S_tail) # <<>>

-----------------------------------------------------------------------------
(* Properties of Template.get_tmpl *)

\* C23: once a name has been loaded, every later lookup of it returns the
\* same Template object and neither reads nor parses; an entry of the cache
\* is never replaced or removed, and a lookup that raised has left the cache
\* as it was.
C23_CachedOnce ==
    /\ [](\A i \in 1..Len(tc_calls) : \A j \in 1..Len(tc_calls) :
              (i < j /\ tc_calls[i].name = tc_calls[j].name
                     /\ tc_calls[i].exc = "none") =>
                  /\ ~tc_calls[j].read
                  /\ ~tc_calls[j].parsed
                  /\ tc_calls[j].exc = "none"
                  /\ tc_calls[j].ret = tc_calls[i].ret)
    /\ [][/\ \A k \in 1..Len(tc_cache) :
                 /\ HasKey(tc_cache', tc_cache[k].key)
                 /\ DictGet(tc_cache', tc_cache[k].key) = tc_cache[k].val
          /\ (Len(tc_calls') > Len(tc_calls)
              /\ tc_calls'[Len(tc_calls')].exc # "none") =>
                 tc_cache' = tc_cache]_vars

C23_Witness ==
    /\ Len(tc_calls) = 3
    /\ tc_calls[1].name = tc_calls[2].name
    /\ tc_calls[2].name = tc_calls[3].name
    /\ tc_calls[1].exc = "ParseException"
    /\ tc_calls[2].exc = "none" /\ tc_calls[2].parsed
    /\ tc_calls[3].outcome = "unreadable"
    /\ tc_calls[3].ret = tc_calls[2].ret
    /\ Len(tc_cache) = 1

-----------------------------------------------------------------------------
(* Properties of the LineList operations *)

LastOp == ll_ops'[Len(ll_ops')]

\* the texts an operation starts from and the texts it adds, as the caller
\* sees them before the operation
TextsBefore(o) == IF o.op = "new" THEN <<>> ELSE EntryTexts(ll_heap[o.recv])

TextsAdded(o) ==
    IF o.other.kind = "llist" THEN EntryTexts(ll_heap[o.other.id])
    ELSE o.lines

\* C25: every operation leaves the entries there were where they were, with
\* their coordinate and text; the list it made or changed holds the texts it
\* had followed by the texts added, in order, and its length is their number;
\* a construction and + make a new list and change no other, append, extend
\* and += change only the receiver.
C25_LineListOps ==
    [][Len(ll_ops') = Len(ll_ops) + 1 =>
           /\ \A id \in 1..Len(ll_heap) :
                  /\ IsPrefix(ll_heap[id], ll_heap'[id])
                  /\ (id # LastOp.recv \/ LastOp.op \in {"new", "add"}) =>
                         ll_heap'[id] = ll_heap[id]
           /\ Len(ll_heap') =
                  Len(ll_heap) + (IF LastOp.op \in {"new", "add"} THEN 1 ELSE 0)
           /\ LastOp.op \in {"new", "add"} => LastOp.res = Len(ll_heap')
           /\ EntryTexts(ll_heap'[LastOp.res])
                  = TextsBefore(LastOp) \o TextsAdded(LastOp)
           /\ Len(ll_heap'[LastOp.res])
                  = Len(TextsBefore(LastOp)) + Len(TextsAdded(LastOp))]_vars

C25_Witness ==
    /\ Len(ll_ops) = 3
    /\ ll_ops[1].op = "new" /\ Len(ll_ops[1].lines) = 2
    /\ ll_ops[2].op = "iadd" /\ ll_ops[2].other = ListOperand(1)
    /\ ll_ops[3].op = "add" /\ ll_ops[3].other = ListOperand(1)
    /\ Len(ll_heap) = 2
    /\ Len(ll_heap[1]) = 4
    /\ Len(ll_heap[2]) = 8

-----------------------------------------------------------------------------
(* Properties of the helper functions *)

Lesser(m, n) == IF m <= n THEN m ELSE n

Greater(m, n) == IF m <= n THEN n ELSE m

\* C26: for two coordinates of one path a - b and b - a are the same range,
\* from the lesser line to the greater; for coordinates of two paths neither
\* subtraction gives a range.
C26_Subtraction ==
    ap_fn = "sub" =>
        IF ap_arg.a.path = ap_arg.b.path
        THEN /\ ap_res.ab.exc = "none"
             /\ ap_res.ba = ap_res.ab
             /\ ap_res.ab.range.path = ap_arg.a.path
             /\ ap_res.ab.range.start = Lesser(ap_arg.a.lno, ap_arg.b.lno)
             /\ ap_res.ab.range.end = Greater(ap_arg.a.lno, ap_arg.b.lno)
             /\ ap_res.ab.range.start <= ap_res.ab.range.end
             /\ ap_arg.a = ap_arg.b =>
                    /\ ap_res.ab.range.start = ap_arg.a.lno
                    /\ ap_res.ab.range.end = ap_arg.a.lno
        ELSE ap_res.ab.exc # "none" /\ ap_res.ba.exc # "none"

C26_Witness ==
    /\ ap_fn = "sub"
    /\ ap_arg.a.path = ap_arg.b.path
    /\ ap_arg.a.lno > ap_arg.b.lno
    /\ ap_res.ab.range.start = ap_arg.b.lno
    /\ ap_res.ba.range.end = ap_arg.a.lno

IsVoid(param) == param = <<Token(TOK_WORD, W_void)>>

\* the mock stored under the name f by the call
StoredMock == DictGet(ap_res.values.mocks, W_f)

\* C29: "T f()" and "T f(void)" store the same mock, without arguments; a
\* parameter list of several parameters of which one is "void" alone or is
\* empty is rejected with ParseException and stores nothing.
C29_NoArguments ==
    ap_fn = "mock" =>
        /\ (ap_arg.params = <<>>
            \/ (Len(ap_arg.params) = 1 /\ IsVoid(ap_arg.params[1]))) =>
               /\ ap_res.ok
               /\ Len(ap_res.values.mocks) = 1
               /\ StoredMock
                      = [coord_range |-> [path |-> InPath, start |-> 1,
                                          end |-> 1],
                         name |-> W_f,
                         return_type |-> MakeType(ap_arg.ret).v,
                         args |-> <<>>]
        /\ (Len(ap_arg.params) >= 2
            /\ \E i \in 1..Len(ap_arg.params) :
                   IsVoid(ap_arg.params[i]) \/ ap_arg.params[i] = <<>>) =>
               /\ ~ap_res.ok
               /\ ap_res.values.mocks = <<>>

C29_Witness ==
    /\ ap_fn = "mock"
    /\ Len(ap_arg.params) = 1
    /\ IsVoid(ap_arg.params[1])
    /\ ap_res.ok
    /\ StoredMock.args = <<>>
    /\ StoredMock.return_type = <<"i", "n", "t", " ", "*", "*">>

IsStar(tok) == tok = CharTok("*")

\* the type string written token by token: a "*" after a "*" follows it at
\* once, any other token but the first comes after one space
RECURSIVE TypeString(_, _)
TypeString(toks, n) ==
    IF n = 0 THEN <<>>
    ELSE TypeString(toks, n - 1)
         \o (IF n = 1 \/ (IsStar(toks[n]) /\ IsStar(toks[n - 1]))
             THEN <<>> ELSE <<" ">>)
         \o toks[n].value

InType(tok) == tok.type_ = TOK_WORD \/ IsStar(tok)

Besides(vals) == [vals EXCEPT !.fixtures = <<>>]

\* the value-map holds one fixture f, which is ob, and what it held before
StoresFixture(before, after, ob) ==
    /\ Besides(after) = Besides(before)
    /\ Keys(after.fixtures) = Keys(before.fixtures) \cup {W_f}
    /\ Len(after.fixtures) = Cardinality(Keys(after.fixtures))
    /\ DictGet(after.fixtures, W_f) = ob
    /\ \A k \in Keys(before.fixtures) \ {W_f} :
           DictGet(after.fixtures, k) = DictGet(before.fixtures, k)

\* C33: the first closing line of a fixture followed by the word teardown
\* and "{" stores nothing, keeps the body as the code and returns the
\* teardown callable; followed by nothing it stores the fixture without
\* teardown and returns nothing; the closing line of the teardown followed
\* by nothing stores one fixture, from the line of the directive to that
\* line, with the code and the teardown; any other tokens after either "}"
\* raise ParseException.
C33_FixtureClose ==
    /\ ap_fn = "fixture" =>
           IF ap_arg.toks = SomeToks(TeardownOpen)
           THEN /\ ap_res.ok
                /\ ap_res.values = ap_arg.vals
                /\ ap_res.next.kind = "teardown"
                /\ ap_res.next.code = List(ap_arg.buf)
           ELSE IF ap_arg.toks = SomeToks(<<>>)
           THEN /\ ap_res.ok
                /\ ap_res.next.kind = "none"
                /\ StoresFixture(ap_arg.vals, ap_res.values,
                       [coord_range |-> [path |-> InPath, start |-> 1,
                                         end |-> 3],
                        name |-> W_f, return_type |-> ap_arg.d.type_,
                        code |-> List(ap_arg.buf), teardown |-> NoList])
           ELSE ~ap_res.ok
    /\ ap_fn = "teardown" =>
           IF ap_arg.toks = SomeToks(<<>>)
           THEN /\ ap_res.ok
                /\ ap_res.next.kind = "none"
                /\ StoresFixture(ap_arg.vals, ap_res.values,
                       [coord_range |-> [path |-> InPath, start |-> 1,
                                         end |-> 5],
                        name |-> W_f, return_type |-> ap_arg.d.type_,
                        code |-> List(ap_arg.first),
                        teardown |-> List(ap_arg.buf)])
           ELSE ~ap_res.ok

C33_Witness ==
    /\ ap_fn = "teardown"
    /\ ap_res.ok
    /\ DictGet(ap_res.values.fixtures, W_f).code.es # <<>>
    /\ DictGet(ap_res.values.fixtures, W_f).teardown.es # <<>>
    /\ DictGet(ap_res.values.fixtures, W_f).coord_range.end = 5

\* C34: when a handler of a directive, or the callable it returned, raises
\* ParseException, the value-map is what it was before the call, in both
\* grammars.
C34_NothingStored ==
    /\ (ap_fn \in {"handler", "closing", "fixture", "teardown"}
        /\ ~ap_res.ok) => ap_res.values = ap_arg.vals
    /\ (ap_fn = "mock" /\ ~ap_res.ok) => ap_res.values = InitialValues

\* the closing line of a define of a template that holds a define already
\* has tokens after the brace
C34_Witness ==
    /\ ap_fn = "closing"
    /\ ~ap_res.ok
    /\ ap_arg.grammar = "template"
    /\ ap_arg.d.kind = "define"
    /\ ap_arg.buf # <<>>
    /\ ap_arg.toks = SomeToks(<<Token(TOK_WORD, W_a)>>)
    /\ ap_arg.vals.defines # <<>>

\* s holds a comment marker
HasMarker(s) ==
    \E i \in 1..(Len(s) - 1) :
        s[i] = "/" /\ s[i + 1] \in {"/", "*"}

\* the contents of the quoted strings of the line s, read with every other
\* double quote opening a string; q is the content of the open string
RECURSIVE QuotedIn(_, _)
QuotedIn(s, q) ==
    IF s = <<>> THEN {}
    ELSE IF Head(s) # "\"" THEN
             QuotedIn(Tail(s), IF q.has THEN SomeText(Append(q.v, Head(s)))
                               ELSE q)
    ELSE IF q.has THEN {q.v} \cup QuotedIn(Tail(s), NoText)
    ELSE QuotedIn(Tail(s), SomeText(<<>>))

\* C39: the comments of a directive line are stripped before the line is
\* tokenized, whether or not they stand between double quotes: the text
\* that is tokenized holds no // and no /*, no STRING token a handler is
\* given holds one, and a quoted string written with // or /* in it is not
\* among the STRING tokens.
C39_MarkersInStrings ==
    ap_fn = "parse_line" =>
        /\ ap_res.completed => ~HasMarker(ap_res.text)
        /\ \A c \in 1..Len(ap_res.call) :
               \A i \in 1..Len(ap_res.call[c].toks.toks) :
                   ap_res.call[c].toks.toks[i].type_ = TOK_STR =>
                       /\ ~HasMarker(ap_res.call[c].toks.toks[i].value)
                       /\ \A q \in QuotedIn(Continued(ap_arg.ps, ap_arg.line),
                                            NoText) :
                              HasMarker(q) =>
                                  ap_res.call[c].toks.toks[i].value # q

C39_Witness ==
    /\ ap_fn = "parse_line"
    /\ ~ap_arg.ps.continued.has
    /\ ap_arg.tail = <<"\"", "/", "*", "*", "/", "\"">>
    /\ Len(ap_res.call) = 1
    /\ ap_res.call[1].ok
    /\ ap_res.call[1].toks = SomeToks(<<Token(TOK_STR, <<" ">>)>>)
    /\ ap_res.ps.values.target = SomeText(<<" ">>)

\* the fixture stored when the body of ap_arg is closed with no teardown
\* block behind it
WithoutTeardown ==
    DictGet(FixtureCall(FixtureOpened.next, ap_arg.vals,
                        Coordinate(InPath, 3), ap_arg.code,
                        SomeToks(<<>>)).values.fixtures,
            W_f)

\* C40: Fixture.render gives the template a teardown argument exactly when
\* the fixture has a teardown body of at least one line, and a fixture
\* declared with an empty teardown block renders into the same context and
\* result as the same fixture declared without a teardown block.
C40_EmptyTeardown ==
    ap_fn = "fixture_render" =>
        /\ HasKey(ap_res.args, W_teardown) <=>
               (ap_arg.fixture.teardown.has
                /\ ap_arg.fixture.teardown.es # <<>>)
        /\ (ap_arg.from = "teardown" /\ ap_arg.fixture.teardown.es = <<>>) =>
               /\ ap_res.args = FixtureArgs(WithoutTeardown)
               /\ ap_res.res = RenderOne(WithoutTeardown)

C40_Witness ==
    /\ ap_fn = "fixture_render"
    /\ ap_arg.from = "teardown"
    /\ ap_arg.fixture.teardown = List(<<>>)
    /\ ap_arg.fixture.code.es # <<>>
    /\ WithoutTeardown.teardown = NoList
    /\ WithoutTeardown.coord_range # ap_arg.fixture.coord_range
    /\ ap_res.res.exc = "none"
    /\ ap_res.res.ctxt.sections # <<>>

-----------------------------------------------------------------------------
(* Properties of the value-maps *)

\* the collections a value-map holds
Collections(vals) ==
    {vals[k].ref : k \in {j \in 1..Len(vals) : vals[j].ref # 0}}

\* the keys of the registered directives that are given a list or a map
CollectionKeys(cls) ==
    IF cls = "HypoParser" THEN {"preamble", "mocks", "tests", "fixtures"}
    ELSE {"structure", "defines", "sections"}

\* C27: every parse has a collection of its own under each key that holds a
\* list or a map, no collection is held by two value-maps or under two
\* keys, and the value-map a parse returned reads the same whatever later
\* parses store.
C27_OwnValues ==
    /\ \A p \in 1..Len(sd_parses) :
           /\ \A key \in CollectionKeys(sd_parses[p].cls) :
                  \E k \in 1..Len(sd_parses[p].values) :
                      /\ sd_parses[p].values[k].key = key
                      /\ sd_parses[p].values[k].ref # 0
           /\ \A j \in 1..Len(sd_parses[p].values) :
                  \A k \in 1..Len(sd_parses[p].values) :
                      (j # k /\ sd_parses[p].values[j].ref # 0) =>
                          sd_parses[p].values[j].ref
                              # sd_parses[p].values[k].ref
           /\ sd_parses[p].done =>
                  ValuesRead(sd_parses[p].values, sd_heap)
                      = sd_parses[p].result
    /\ \A p \in 1..Len(sd_parses) : \A q \in 1..Len(sd_parses) :
           p # q => Collections(sd_parses[p].values)
                        \cap Collections(sd_parses[q].values) = {}

C27_Witness ==
    /\ Len(sd_parses) = 2
    /\ sd_parses[1].cls = "HypoParser"
    /\ sd_parses[2].cls = "HypoParser"
    /\ sd_parses[1].done
    /\ sd_parses[2].done
    /\ sd_parses[1].stores = 1
    /\ sd_parses[2].stores = 1
    /\ sd_parses[1].result # sd_parses[2].result
    /\ \E k \in 1..Len(sd_parses[1].result) :
           /\ sd_parses[1].result[k].key = "mocks"
           /\ sd_parses[1].result[k].items = <<"p">>
           /\ sd_parses[2].result[k].items = <<"q">>

\* the value-map of parse p has one slot for each of the directives ds, in
\* order, under its storage key: a collection made for this parse when the
\* initial value is callable, the initial value itself otherwise
SlotsFor(p, ds) ==
    /\ Len(sd_parses[p].values) = Len(ds)
    /\ \A k \in 1..Len(ds) :
           /\ sd_parses[p].values[k].key = ds[k].value
           /\ IF ds[k].init.kind = "callable"
              THEN /\ sd_parses[p].values[k].ref # 0
                   /\ \A q \in 1..(p - 1) :
                          sd_parses[p].values[k].ref
                              \notin Collections(sd_parses[q].values)
              ELSE sd_parses[p].values[k].ref = ds[k].init.obj

InitGiven(d) == d.init.kind # "unset"

InitNotNone(d) ==
    d.init.kind # "unset" /\ ~(d.init.kind = "value" /\ d.init.obj = 0)

\* C35 as stated: the value-map has a slot for each directive registered
\* with an initial value other than None, and none for the others.
C35_SlotsNotNone ==
    \A p \in 1..Len(sd_parses) :
        SlotsFor(p, SelectSeq(DirectivesOf(sd_parses[p].cls), InitNotNone))

\* C35 amended: the value-map has a slot for each directive registered with
\* an initial value, None included, under its storage key, filled by
\* calling the initial value when it is callable and with the value itself
\* otherwise; a directive registered without an initial value has no slot.
C35_SlotsGiven ==
    \A p \in 1..Len(sd_parses) :
        SlotsFor(p, SelectSeq(DirectivesOf(sd_parses[p].cls), InitGiven))

\* a parse of each grammar: target has its slot, literal has none
C35_Witness ==
    /\ Len(sd_parses) = 2
    /\ sd_parses[1].cls = "TemplateParser"
    /\ sd_parses[2].cls = "HypoParser"
    /\ Len(sd_parses[1].values) = 3
    /\ sd_parses[2].values[1].key = "target"
    /\ sd_parses[2].values[1].ref = 0

-----------------------------------------------------------------------------
(* Properties of HypoFile.render *)

KindRank(kind) ==
    CASE kind = "preamble" -> 1
      [] kind = "test" -> 2
      [] kind = "mock" -> 3
      [] kind = "fixture" -> 4
      [] kind = "master" -> 5

\* the objects of one kind in the order they were rendered
RECURSIVE OfKind(_, _)
OfKind(order, kind) ==
    IF order = <<>> THEN <<>>
    ELSE (IF Head(order).kind = kind THEN <<Head(order)>> ELSE <<>>)
         \o OfKind(Tail(order), kind)

JobNames(jobs) == [i \in 1..Len(jobs) |-> jobs[i].name]

Ascending(names) ==
    \A i, j \in 1..Len(names) : i < j => StrLess(names[i], names[j])

\* the names of a dictionary, each once, in ascending order
AscendingKeysOf(names, d) ==
    /\ Len(names) = Len(d)
    /\ {names[i] : i \in 1..Len(names)} = Keys(d)
    /\ Ascending(names)

\* the line a mock leaves in the section of the mocks
MockLine(m) == m.name \o (IF m.return_type = W_void THEN <<>> ELSE <<"=">>)

\* C20: render goes through the preambles in declaration order, the tests
\* in the order of the tests map, the mocks and then the fixtures in
\* ascending order of their names, and the master template last, on one
\* context of its own; the output is the master's structure over the
\* sections as all the objects left them, and the mocks stand in it by
\* name, whatever the order of their declaration.
C20_RenderOrder ==
    hf_pc = "rendered" =>
        /\ \A i, j \in 1..Len(hf_res.order) :
               i < j => KindRank(hf_res.order[i].kind)
                            <= KindRank(hf_res.order[j].kind)
        /\ [i \in 1..Len(OfKind(hf_res.order, "preamble")) |->
               OfKind(hf_res.order, "preamble")[i].idx]
               = [i \in 1..Len(hfile.preamble) |-> i]
        /\ JobNames(OfKind(hf_res.order, "test")) = DictKeys(hfile.tests)
        /\ AscendingKeysOf(JobNames(OfKind(hf_res.order, "mock")), hfile.mocks)
        /\ AscendingKeysOf(JobNames(OfKind(hf_res.order, "fixture")),
                           hfile.fixtures)
        /\ Len(OfKind(hf_res.order, "master")) = 1
        /\ hf_res.ret = hf_res.ctxt.output.id
        /\ hf_res.ctxt.output.es
               = MasterTemplate.structure[1].code
                 \o SectionOf(hf_res.ctxt.sections, W_preamble)
                 \o SectionOf(hf_res.ctxt.sections, N_mocks)
                 \o SectionOf(hf_res.ctxt.sections, N_fixtures)
                 \o SectionOf(hf_res.ctxt.sections, N_cleanup)
                 \o SectionOf(hf_res.ctxt.sections, N_tests)
        /\ EntryTexts(SectionOf(hf_res.ctxt.sections, N_mocks))
               = [i \in 1..Len(hfile.mocks) |->
                     MockLine(DictGet(hfile.mocks,
                                      Sorted(Keys(hfile.mocks))[i]))]
        /\ Len(SectionOf(hf_res.ctxt.sections, W_preamble))
               = Len(hfile.preamble)

C20_Witness ==
    /\ hf_pc = "rendered"
    /\ Len(hfile.mocks) = 2
    /\ StrLess(hfile.mocks[2].key, hfile.mocks[1].key)
    /\ Len(hfile.tests) = 1
    /\ Len(hf_res.ctxt.output.es) >= 4

\* the entries under one name
EntriesOf(d, k) == {i \in 1..Len(d) : d[i].key = k}

\* where in the declarations the ones of a kind and a name are
DeclaredAt(kind, name) ==
    {n \in 1..Len(hf_decls) :
         hf_decls[n].kind = kind /\ hf_decls[n].name = name}

Least(S) == CHOOSE n \in S : \A m \in S : n <= m

Most(S) == CHOOSE n \in S : \A m \in S : m <= n

\* the n-th declaration begins on line 2n - 1
DeclaredBy(ob, n) == ob.coord_range.start = 2 * n - 1

\* d is the map of the objects of a kind: the names declared, one entry a
\* name, each with the object of its last declaration
LastWins(d, kind) ==
    /\ Keys(d) = {hf_decls[n].name :
                      n \in {m \in 1..Len(hf_decls) : hf_decls[m].kind = kind}}
    /\ \A k \in Keys(d) :
           /\ Cardinality(EntriesOf(d, k)) = 1
           /\ DictGet(d, k).name = k
           /\ DeclaredBy(DictGet(d, k), Most(DeclaredAt(kind, k)))

\* the names of the map stand in the order of their first declarations
FirstPlaces(d, kind) ==
    \A i, j \in 1..Len(d) :
        i < j => Least(DeclaredAt(kind, d[i].key))
                     < Least(DeclaredAt(kind, d[j].key))

\* C28: each of the maps of tests, mocks and fixtures holds one entry for
\* every name declared, which is the object of the last declaration of the
\* name; the names of the tests stand in the order of their first
\* declarations, and that is the order the tests are rendered in.
C28_LastWins ==
    /\ LastWins(hfile.tests, "test")
    /\ LastWins(hfile.mocks, "mock")
    /\ LastWins(hfile.fixtures, "fixture")
    /\ FirstPlaces(hfile.tests, "test")
    /\ hf_pc = "rendered" =>
           JobNames(OfKind(hf_res.order, "test")) = DictKeys(hfile.tests)

\* t, u and t again declared and the file rendered
C28_Witness ==
    /\ hf_pc = "rendered"
    /\ [n \in 1..Len(hf_decls) |-> hf_decls[n].name]
           = <<<<"t">>, <<"u">>, <<"t">>>>
    /\ DeclaredAt("test", <<"t">>) = {1, 3}
    /\ DictGet(hfile.tests, <<"t">>).coord_range.start = 5
    /\ JobNames(OfKind(hf_res.order, "test")) = <<<<"t">>, <<"u">>>>

=============================================================================
